---- MODULE Spec2Model ----
(***************************************************************************)
(* Quote assembly and validation engine of shakespeare_ai_client: the      *)
(* UsedMap ledger, the Selector, the Assembler, the Validator and the      *)
(* TranslationManager workflow that ties them together.                    *)
(*                                                                         *)
(* Text is a sequence of character codes: 0 is a space, 1..9 are the       *)
(* lower-case letters a..i, 11..19 the upper-case letters A..I, 20 a comma *)
(* 21 a full stop and 22 a hyphen.  The range strings of the ledger are    *)
(* sequences of digits with Comma (-1) between them.                       *)
(***************************************************************************)
EXTENDS Integers, Sequences, FiniteSets, TLC

VARIABLES
    active_translation_id,  \* UsedMap.active_translation_id (NoId = None)
    used_maps,              \* UsedMap.used_maps: translation id -> {reference_key -> set of range strings}
    files,                  \* the ledger files <id>_used_map.json of storage_dir
    um_last,                \* the last UsedMap operation and what it observed
    um_marked,              \* ranges marked since the active session was last loaded or reset
    um_marked_active,       \* ranges marked since the active session became active or was reset
    um_marks,               \* number of mark_used calls made so far
    translation_id,         \* TranslationManager.translation_id (NoId = None)
    pc,                     \* where the manager is: idle, inside translate_line, or in a batch loop
    frame,                  \* the locals of the translate_line call in flight
    ret,                    \* what the last translate_line call returned
    batch_kind,             \* the batch call in flight: none, scene, group or group_hybrid
    batch_left,             \* lines of the batch not yet processed
    batch_status,           \* how the last batch call ended: none, returned or raised
    lines_started,          \* number of translate_line calls made so far
    crashes,                \* number of process crashes so far
    validated,              \* validate_line returned true for the line in flight
    line_marks,             \* the ranges recorded for the line in flight, with the recorder
    committed,              \* the ranges recorded by the lines that returned
    recorded,               \* the candidates whose range was recorded since the ledger was loaded
    returned_refs,          \* the references of the results returned in the session
    reused,                 \* some reference was returned twice
    good_reply,             \* a reply of the oracle that is a valid assembly, with its candidates
    oracle_calls,           \* oracle calls made for the translate_line request in progress
    call_info,              \* what the call in flight was given
    current_title,          \* LineChunker.chunk_text: the title of the play being read
    current_act,            \* LineChunker.chunk_text: the act being read (Null = None)
    current_scene,          \* LineChunker.chunk_text: the scene being read (Null = None)
    scene_line_index,       \* LineChunker.chunk_text: lines chunked since the last reset
    chunks,                 \* LineChunker.chunk_text: the line chunks produced so far
    lines_read,             \* number of input lines chunk_text has consumed
    val_text,               \* the assembled_text a direct validate_line call is given
    val_refs,               \* the references a direct validate_line call is given
    val_result,             \* what that call returned: pending, True or False
    fragment_chunker,       \* FragmentChunker.chunk_from_line_chunks on one line chunk
    phrase_chunker,         \* PhraseChunker.chunk_from_line_chunks on one line chunk
    ranker,                 \* the arguments of rank_candidates and what its runs returned
    assembler,              \* a direct assemble_line call: its arguments, locals and result
    sessions,               \* per translation id: whether a client began it, what it marked
    filter_call,            \* direct filter_candidates calls: the argument and the result
    mini_call               \* a direct _mini_validate call: its arguments and its result

mgr_vars == <<translation_id, pc, frame, ret, batch_kind, batch_left, batch_status,
              lines_started, crashes, validated, line_marks, committed, recorded,
              returned_refs, reused, good_reply, oracle_calls, call_info>>

lc_vars == <<current_title, current_act, current_scene, scene_line_index, chunks,
             lines_read>>

\* the state of the components that are exercised on their own
val_vars == <<val_text, val_refs, val_result>>

\* the state of the clients of a shared UsedMap and of further components
ext_vars == <<sessions, filter_call, mini_call>>

aux_vars == <<lc_vars, val_vars, fragment_chunker, phrase_chunker, ranker, assembler,
              ext_vars>>

um_vars == <<active_translation_id, used_maps, files, um_last, um_marked,
             um_marked_active, um_marks>>

----------------------------------------------------------------------------
(* Bounds of the model *)

\* largest word index a range of the UsedMap interface model may name
MaxWordIndex == 1

\* number of mark_used calls the UsedMap interface model makes
MaxMarks == 2

----------------------------------------------------------------------------
(* Values *)

NoId == "<no id>"
IDS == {"t1", "t2"}

\* field values of a reference: a string, None (JSON null) or a missing key
Null == "<None>"
Missing == "<missing>"

Comma == -1

\* the reference keys and ranges the UsedMap interface is driven with
UMKeys == {<<"T", "I", "1", "1">>, <<"T", "NULL", "NULL", "1">>}
UMRanges == {<<a>> : a \in 0..MaxWordIndex}
                \cup {<<a, a + 1>> : a \in 0..(MaxWordIndex - 1)}

EmptyDict == [k \in {} |-> {}]

SeqToSet(seq) == {seq[i] : i \in 1..Len(seq)}

AbsentFile == [st |-> "absent", data |-> EmptyDict]
MalformedFile == [st |-> "malformed", data |-> EmptyDict]

----------------------------------------------------------------------------
(* UsedMap *)

RECURSIVE JoinComma(_)
\* ",".join(str(i) for i in context_range)
JoinComma(list) ==
    IF Len(list) = 0 THEN <<>>
    ELSE IF Len(list) = 1 THEN <<list[1]>>
    ELSE <<list[1], Comma>> \o JoinComma(Tail(list))

\* the string mark_used and was_used turn a list range into
ContextStr(context_range) == JoinComma(context_range)

\* dict.get(key, set())
DictGet(d, k) == IF k \in DOMAIN d THEN d[k] ELSE {}

\* used_maps.get(tid, {})
MapOf(maps, tid) == IF tid \in DOMAIN maps THEN maps[tid] ELSE EmptyDict

\* d with d[k] = v
DictPut(d, k, v) == [x \in (DOMAIN d) \cup {k} |-> IF x = k THEN v ELSE d[x]]

\* mutant: the new range replaces the ranges already recorded under the key
MarkUsedDictOverwrite(map_for_tid, reference_key, context_range) ==
    DictPut(map_for_tid, reference_key, {ContextStr(context_range)})

\* the ledger of the active session after mark_used(reference_key, context_range)
MarkUsedDict(map_for_tid, reference_key, context_range) ==
    DictPut(map_for_tid, reference_key,
            DictGet(map_for_tid, reference_key) \cup {ContextStr(context_range)})

\* was_used(reference_key, context_range) on a UsedMap with the given state
WasUsedIn(active, maps, reference_key, context_range) ==
    IF active = NoId THEN FALSE
    ELSE ContextStr(context_range)
            \in DictGet(MapOf(maps, active), reference_key)

WasUsed(reference_key, context_range) ==
    WasUsedIn(active_translation_id, used_maps, reference_key, context_range)

\* what json.load and the set() conversion make of a ledger file
LoadedFrom(file) == IF file.st = "ok" THEN file.data ELSE EmptyDict

\* what save writes: every key with the list of its range strings
Serializable(maps, tid) == MapOf(maps, tid)

\* mutant: a load that finds no readable ledger file keeps the ledger in memory
LoadKeepLedger(tid) ==
    /\ active_translation_id' = tid
    /\ used_maps' = DictPut(used_maps, tid,
                         IF files[tid].st = "ok" THEN files[tid].data
                         ELSE MapOf(used_maps, tid))
    /\ um_last' = [op |-> "load", id |-> tid, had_file |-> files[tid].st = "ok"]
    /\ um_marked' = {}
    /\ um_marked_active' = IF tid = active_translation_id THEN um_marked_active ELSE {}
    /\ UNCHANGED files

\* UsedMap.load(translation_id)
Load(tid) ==
    /\ active_translation_id' = tid
    /\ used_maps' = DictPut(used_maps, tid, LoadedFrom(files[tid]))
    /\ um_last' = [op |-> "load", id |-> tid, had_file |-> files[tid].st = "ok"]
    /\ um_marked' = {}
    /\ um_marked_active' = IF tid = active_translation_id THEN um_marked_active ELSE {}
    /\ UNCHANGED files

RECURSIVE FoldMarks(_, _)
\* the ledger after mark_used(key, range) for each <<key, range>> of pairs, in order
FoldMarks(map_for_tid, pairs) ==
    IF Len(pairs) = 0 THEN map_for_tid
    ELSE FoldMarks(MarkUsedDict(map_for_tid, Head(pairs)[1], Head(pairs)[2]), Tail(pairs))

\* a run of UsedMap.mark_used calls, one for each <<key, range>> of pairs
MarkUsedAll(pairs) ==
    /\ IF active_translation_id = NoId
       THEN UNCHANGED <<used_maps, um_marked, um_marked_active>>
       ELSE /\ used_maps' = DictPut(used_maps, active_translation_id,
                                FoldMarks(MapOf(used_maps, active_translation_id), pairs))
            /\ um_marked' = um_marked \cup SeqToSet(pairs)
            /\ um_marked_active' = um_marked_active \cup SeqToSet(pairs)
    /\ um_last' = [op |-> "mark_used", id |-> active_translation_id, had_file |-> FALSE]
    /\ UNCHANGED <<active_translation_id, files>>

\* UsedMap.mark_used(reference_key, context_range)
MarkUsed(reference_key, context_range) ==
    MarkUsedAll(<< <<reference_key, context_range>> >>)

\* UsedMap.save() of the active session
Save ==
    /\ active_translation_id # NoId
    /\ files' = [files EXCEPT ![active_translation_id] =
                    [st |-> "ok", data |-> Serializable(used_maps, active_translation_id)]]
    /\ um_last' = [op |-> "save", id |-> active_translation_id, had_file |-> FALSE]
    /\ UNCHANGED <<active_translation_id, used_maps, um_marked, um_marked_active>>

\* the first half of save: open(path, 'w') truncates the ledger file
SaveOpen ==
    /\ files' = [files EXCEPT ![active_translation_id] = MalformedFile]
    /\ um_last' = [op |-> "save_open", id |-> active_translation_id, had_file |-> FALSE]
    /\ UNCHANGED <<active_translation_id, used_maps, um_marked, um_marked_active>>

\* mutant: json.dump writes nothing, the file stays as open(path, 'w') left it
SaveDumpNothing ==
    /\ um_last' = [op |-> "save", id |-> active_translation_id, had_file |-> FALSE]
    /\ UNCHANGED <<active_translation_id, used_maps, um_marked, um_marked_active, files>>

\* the second half of save: json.dump writes the ledger
SaveDump ==
    /\ files' = [files EXCEPT ![active_translation_id] =
                    [st |-> "ok", data |-> Serializable(used_maps, active_translation_id)]]
    /\ um_last' = [op |-> "save", id |-> active_translation_id, had_file |-> FALSE]
    /\ UNCHANGED <<active_translation_id, used_maps, um_marked, um_marked_active>>

\* UsedMap.reset() of the active session
Reset ==
    /\ active_translation_id # NoId
    /\ used_maps' = DictPut(used_maps, active_translation_id, EmptyDict)
    /\ um_last' = [op |-> "reset", id |-> active_translation_id, had_file |-> FALSE]
    /\ um_marked' = {}
    /\ um_marked_active' = {}
    /\ UNCHANGED <<active_translation_id, files>>

----------------------------------------------------------------------------
(* Text *)

Space == 0

IsUpper(c) == c \in 11..19
IsAlpha(c) == c \in 1..9 \/ c \in 11..19
\* str.isalnum of one character
IsAlnum(c) == IsAlpha(c)
\* str.lower of one character
LowerChar(c) == IF IsUpper(c) THEN c - 10 ELSE c

\* str.lower
Lower(text) == [i \in 1..Len(text) |-> LowerChar(text[i])]

\* ''.join(c for c in text if c.isalnum())
RECURSIVE KeepAlnum(_)
KeepAlnum(text) ==
    IF Len(text) = 0 THEN <<>>
    ELSE (IF IsAlnum(Head(text)) THEN <<Head(text)>> ELSE <<>>) \o KeepAlnum(Tail(text))

\* str.strip
RECURSIVE Strip(_)
Strip(text) ==
    IF Len(text) = 0 THEN <<>>
    ELSE IF Head(text) = Space THEN Strip(Tail(text))
    ELSE IF text[Len(text)] = Space THEN Strip(SubSeq(text, 1, Len(text) - 1))
    ELSE text

\* str.split(): the maximal runs of non-space characters
RECURSIVE SplitWords(_, _)
SplitWords(text, cur) ==
    IF Len(text) = 0 THEN (IF Len(cur) = 0 THEN <<>> ELSE <<cur>>)
    ELSE IF Head(text) = Space
         THEN (IF Len(cur) = 0 THEN <<>> ELSE <<cur>>) \o SplitWords(Tail(text), <<>>)
         ELSE SplitWords(Tail(text), Append(cur, Head(text)))

Words(text) == SplitWords(text, <<>>)

\* " ".join(words)
RECURSIVE JoinSpace(_)
JoinSpace(words) ==
    IF Len(words) = 0 THEN <<>>
    ELSE IF Len(words) = 1 THEN words[1]
    ELSE words[1] \o <<Space>> \o JoinSpace(Tail(words))

\* str.startswith
StartsWith(text, prefix) ==
    /\ Len(prefix) <= Len(text)
    /\ SubSeq(text, 1, Len(prefix)) = prefix

----------------------------------------------------------------------------
(* References and their word_index strings *)

Dash == -2

\* str.split(sep) of a word_index string
RECURSIVE SplitOn(_, _, _)
SplitOn(str, sep, cur) ==
    IF Len(str) = 0 THEN <<cur>>
    ELSE IF Head(str) = sep THEN <<cur>> \o SplitOn(Tail(str), sep, <<>>)
    ELSE SplitOn(Tail(str), sep, Append(cur, Head(str)))

\* int(part) succeeds on one digit, with or without a minus sign (the model's
\* indices are below 10)
IsInt(part) ==
    \/ Len(part) = 1 /\ part[1] >= 0
    \/ Len(part) = 2 /\ part[1] = Dash /\ part[2] >= 0
IntOf(part) == IF Len(part) = 1 THEN part[1] ELSE 0 - part[2]

\* list(range(start, end + 1))
RangeList(start, end) == [i \in 1..(IF end >= start THEN end - start + 1 ELSE 0) |-> start + i - 1]

NoIndices == [ok |-> FALSE, indices |-> <<>>]

\* "start,end" read by start, end = map(int, s.split(","))
ParsePair(str, sep) ==
    LET parts == SplitOn(str, sep, <<>>)
    IN IF Len(parts) = 2 /\ IsInt(parts[1]) /\ IsInt(parts[2])
       THEN [ok |-> TRUE, indices |-> RangeList(IntOf(parts[1]), IntOf(parts[2]))]
       ELSE NoIndices

\* a single number read by int(s.strip())
ParseSingle(str) ==
    IF IsInt(str) THEN [ok |-> TRUE, indices |-> <<IntOf(str)>>] ELSE NoIndices

HasChar(str, c) == \E i \in 1..Len(str) : str[i] = c

\* STEP 6 of translate_line: the indices it marks for a word_index string
RecorderIndices(word_index) ==
    IF Len(word_index) = 0 THEN NoIndices
    ELSE IF HasChar(word_index, Comma) THEN ParsePair(word_index, Comma)
    ELSE IF HasChar(word_index, Dash) THEN ParsePair(word_index, Dash)
    ELSE ParseSingle(word_index)

\* _create_single_quote_result: the indices it marks for a word_index string
FailsafeIndices(word_index) ==
    IF Len(word_index) = 0 THEN NoIndices
    ELSE IF HasChar(word_index, Comma) THEN ParsePair(word_index, Comma)
    ELSE ParseSingle(word_index)

\* f"{x if x is not None else 'NULL'}" of an act or scene read with get(k, '')
NullAsNULL(x) == IF x = Null THEN "NULL" ELSE IF x = Missing THEN "" ELSE x

\* the reference key STEP 6 and _create_single_quote_result record under
RecorderKey(ref) ==
    <<IF ref.title = Missing THEN "" ELSE IF ref.title = Null THEN "None" ELSE ref.title,
      NullAsNULL(ref.act), NullAsNULL(ref.scene),
      IF ref.line = Missing THEN "" ELSE ref.line>>

\* str(reference.get(k, ""))
StrOrEmpty(x) == IF x = Null THEN "None" ELSE IF x = Missing THEN "" ELSE x

\* the reference key filter_candidates looks up
FilterKey(ref) ==
    <<IF ref.title = Missing THEN "Unknown" ELSE IF ref.title = Null THEN "None" ELSE ref.title,
      StrOrEmpty(ref.act), StrOrEmpty(ref.scene), StrOrEmpty(ref.line)>>

----------------------------------------------------------------------------
(* The corpus and the candidates the store can return *)

\* a reference (chunk metadata) as the store returns it; word_index is a
\* string, <<>> when the key is missing or empty
Ref(title, act, scene, line, word_index, pos) ==
    [is_dict |-> TRUE, title |-> title, act |-> act, scene |-> scene,
     line |-> line, word_index |-> word_index, POS |-> pos]

\* data/line_corpus/lines.json: the ground-truth lines
ground_truth ==
    << [title |-> "T", act |-> "I", scene |-> "1", line |-> "1", text |-> <<1, 0, 2, 0, 3, 0, 4>>],
       [title |-> "T", act |-> Null, scene |-> Null, line |-> "1", text |-> <<5, 0, 6, 0, 7>>],
       [title |-> "T", act |-> "I", scene |-> "1", line |-> "2", text |-> <<8>>] >>

\* the CandidateQuote objects of the model (score is the distance in tenths)
Pool ==
    << \* 1: the line "a b c d"
       [text |-> <<1, 0, 2, 0, 3, 0, 4>>, score |-> 2,
        reference |-> Ref("T", "I", "1", "1", <<0, Comma, 3>>, <<>>)],
       \* 2: the line "e f g" of a passage with no act and no scene
       [text |-> <<5, 0, 6, 0, 7>>, score |-> 3,
        reference |-> Ref("T", Null, Null, "1", <<0, Comma, 2>>, <<>>)],
       \* 3: the phrase "a b c" of line 1
       [text |-> <<1, 0, 2, 0, 3>>, score |-> 1,
        reference |-> Ref("T", "I", "1", "1", <<0, Comma, 2>>, <<>>)],
       \* 4: the fragment "b c d" of line 1
       [text |-> <<2, 0, 3, 0, 4>>, score |-> 4,
        reference |-> Ref("T", "I", "1", "1", <<1, Comma, 3>>, <<>>)],
       \* 5: the line "a b c d" with no title in its metadata
       [text |-> <<1, 0, 2, 0, 3, 0, 4>>, score |-> 2,
        reference |-> Ref(Missing, "I", "1", "1", <<0, Comma, 3>>, <<>>)],
       \* 6: the one-word line "h" with a single-number word_index
       [text |-> <<8>>, score |-> 5,
        reference |-> Ref("T", "I", "1", "2", <<0>>, <<>>)],
       \* 7: the one-word line "h" with a dash-separated word_index
       [text |-> <<8>>, score |-> 5,
        reference |-> Ref("T", "I", "1", "2", <<0, Dash, 0>>, <<>>)],
       \* 8: a candidate whose reference is not a dict
       [text |-> <<8>>, score |-> 6,
        reference |-> [is_dict |-> FALSE, title |-> Missing, act |-> Missing,
                       scene |-> Missing, line |-> Missing, word_index |-> <<>>,
                       POS |-> <<>>]] >>

\* a selector_results dict with its three lists
Results(line, phrases, fragments) ==
    [has_keys |-> TRUE, line |-> line, phrases |-> phrases, fragments |-> fragments]

NoResults == Results(<<>>, <<>>, <<>>)

\* the empty dict {} the callers hand to translate_line
EmptyArg == [has_keys |-> FALSE, line |-> <<>>, phrases |-> <<>>, fragments |-> <<>>]

\* the candidate lists (by Pool index) a search can return
SearchResults ==
    { NoResults,
      Results(<<1>>, <<3>>, <<4>>),
      Results(<<1>>, <<>>, <<>>),
      Results(<<2>>, <<>>, <<>>),
      Results(<<5>>, <<>>, <<>>),
      Results(<<6>>, <<>>, <<>>),
      Results(<<7>>, <<>>, <<>>),
      Results(<<8, 1>>, <<>>, <<>>) }

Levels == <<"line", "phrases", "fragments">>

----------------------------------------------------------------------------
(* Selector *)

\* mutant: only the first POS tag is looked at
HasProperNounFirstOnly(cand) ==
    LET pos_tags == cand.reference.POS
        words == Words(cand.text)
        by_tag == Len(pos_tags) > 0 /\ pos_tags[1] = "PROPN"
        by_text ==
            \E i \in 2..Len(words) :
                /\ IsUpper(words[i][1])
                /\ \E j \in 1..Len(words[i]) : IsAlpha(words[i][j])
                /\ Lower(words[i]) # <<9>>
    IN by_tag \/ by_text

\* the proper-noun checks of filter_candidates
HasProperNoun(cand) ==
    LET pos_tags == cand.reference.POS
        words == Words(cand.text)
        by_tag ==
            IF \E i \in 1..Len(pos_tags) : pos_tags[i] = "PROPN"
            THEN IF pos_tags[1] = "PROPN" THEN TRUE
                 ELSE \E i \in 2..Len(pos_tags) : pos_tags[i] = "PROPN"
            ELSE FALSE
        by_text ==
            \E i \in 2..Len(words) :
                /\ IsUpper(words[i][1])
                /\ \E j \in 1..Len(words[i]) : IsAlpha(words[i][j])
                /\ Lower(words[i]) # <<9>>
    IN by_tag \/ by_text

\* the indices filter_candidates derives from word_index; skip: the candidate
\* is dropped for its format, check: was_used is consulted
FilterIndices(word_index) ==
    IF Len(word_index) = 0 THEN [skip |-> FALSE, check |-> FALSE, indices |-> <<>>]
    ELSE IF HasChar(word_index, Comma)
         THEN LET parts == SplitOn(word_index, Comma, <<>>)
              IN IF Len(parts) = 2 /\ IsInt(parts[1]) /\ IsInt(parts[2])
                 THEN [skip |-> FALSE, check |-> TRUE,
                       indices |-> RangeList(IntOf(parts[1]), IntOf(parts[2]))]
                 ELSE [skip |-> TRUE, check |-> FALSE, indices |-> <<>>]
         ELSE IF IsInt(word_index)
              THEN [skip |-> FALSE, check |-> TRUE, indices |-> <<IntOf(word_index)>>]
              ELSE [skip |-> TRUE, check |-> FALSE, indices |-> <<>>]

\* whether filter_candidates keeps the candidate
PassesFilter(cand, active, maps) ==
    /\ cand.reference.is_dict
    /\ ~HasProperNoun(cand)
    /\ LET fi == FilterIndices(cand.reference.word_index)
       IN /\ ~fi.skip
          /\ fi.check => ~WasUsedIn(active, maps, FilterKey(cand.reference), fi.indices)

RECURSIVE FilterSeq(_, _, _)
\* filter_candidates(candidates) on a list of Pool indices
FilterSeq(candidates, active, maps) ==
    IF Len(candidates) = 0 THEN <<>>
    ELSE (IF PassesFilter(Pool[Head(candidates)], active, maps)
          THEN <<Head(candidates)>> ELSE <<>>)
         \o FilterSeq(Tail(candidates), active, maps)

filter_candidates(candidates) == FilterSeq(candidates, active_translation_id, used_maps)

RECURSIVE InsertByScore(_, _)
InsertByScore(sorted, c) ==
    IF Len(sorted) = 0 THEN <<c>>
    ELSE IF Pool[c].score < Pool[Head(sorted)].score THEN <<c>> \o sorted
    ELSE <<Head(sorted)>> \o InsertByScore(Tail(sorted), c)

\* a sort that leaves the list as it is
SortByScoreIdentity(candidates, acc) == candidates

RECURSIVE SortByScore(_, _)
\* sorted(candidates, key=lambda c: c.score): ascending and stable
SortByScore(candidates, acc) ==
    IF Len(candidates) = 0 THEN acc
    ELSE SortByScore(Tail(candidates), InsertByScore(acc, Head(candidates)))

\* config.mmr_lambda in tenths
MmrLambda10 == 6

Frac(n, d) == [n |-> n, d |-> d]
FracGT(a, b) == a.n * b.d > b.n * a.d

\* compute_similarity: Jaccard overlap of the lower-cased word sets
compute_similarity(text1, text2) ==
    LET words1 == SeqToSet(Words(Lower(text1)))
        words2 == SeqToSet(Words(Lower(text2)))
    IN IF words1 = {} \/ words2 = {} THEN Frac(0, 1)
       ELSE Frac(Cardinality(words1 \cap words2), Cardinality(words1 \cup words2))

RECURSIVE MaxSimilarity(_, _, _)
MaxSimilarity(text, selected, best) ==
    IF Len(selected) = 0 THEN best
    ELSE LET sim == compute_similarity(text, Pool[Head(selected)].text)
         IN MaxSimilarity(text, Tail(selected), IF FracGT(sim, best) THEN sim ELSE best)

\* lambda * 1/(1+score) - (1-lambda) * max_similarity, as an exact fraction
MmrScore(c, ranked, lambda10) ==
    LET sim == MaxSimilarity(Pool[c].text, ranked, Frac(0, 1))
        s == Pool[c].score
    IN Frac(10 * lambda10 * sim.d - (10 - lambda10) * sim.n * (10 + s),
            10 * sim.d * (10 + s))

RECURSIVE MaxMmrIdxLast(_, _, _, _, _)
\* the index of the last remaining candidate with the highest MMR score
MaxMmrIdxLast(remaining, ranked, lambda10, i, best) ==
    IF i > Len(remaining) THEN best
    ELSE IF best = 0
            \/ ~FracGT(MmrScore(remaining[best], ranked, lambda10),
                       MmrScore(remaining[i], ranked, lambda10))
         THEN MaxMmrIdxLast(remaining, ranked, lambda10, i + 1, i)
         ELSE MaxMmrIdxLast(remaining, ranked, lambda10, i + 1, best)

RECURSIVE MaxMmrIdx(_, _, _, _, _)
\* the index of the first remaining candidate with the highest MMR score
MaxMmrIdx(remaining, ranked, lambda10, i, best) ==
    IF i > Len(remaining) THEN best
    ELSE IF best = 0
            \/ FracGT(MmrScore(remaining[i], ranked, lambda10),
                      MmrScore(remaining[best], ranked, lambda10))
         THEN MaxMmrIdx(remaining, ranked, lambda10, i + 1, i)
         ELSE MaxMmrIdx(remaining, ranked, lambda10, i + 1, best)

RemoveAt(seq, i) == SubSeq(seq, 1, i - 1) \o SubSeq(seq, i + 1, Len(seq))

RECURSIVE MmrLoop(_, _, _)
MmrLoop(ranked, remaining, lambda10) ==
    IF Len(remaining) = 0 THEN ranked
    ELSE LET idx == MaxMmrIdx(remaining, ranked, lambda10, 1, 0)
         IN MmrLoop(Append(ranked, remaining[idx]), RemoveAt(remaining, idx), lambda10)

\* rank_candidates(candidates, lambda_param)
rank_candidates(candidates, lambda10) ==
    LET sorted_candidates == SortByScore(candidates, <<>>)
    IN IF Len(sorted_candidates) <= 1 THEN sorted_candidates
       ELSE MmrLoop(<<sorted_candidates[1]>>, Tail(sorted_candidates), lambda10)

\* max_options of prepare_prompt_structure
MaxOptions == 5

TopN(seq, n) == SubSeq(seq, 1, IF Len(seq) < n THEN Len(seq) ELSE n)

\* prompt_data[level] and chunk_map: entry i has temp_id "<level>_<i>" and stands
\* for candidate top_n[i]
Numbered(level, top_n) ==
    [i \in 1..Len(top_n) |-> [temp_id |-> <<level, i>>, cand |-> top_n[i]]]

\* one level of prepare_prompt_structure
PrepareLevel(level, candidates, active, maps) ==
    Numbered(level, TopN(rank_candidates(FilterSeq(candidates, active, maps), MmrLambda10),
                         MaxOptions))

\* prepare_prompt_structure(selector_results): prompt_data, whose entries also
\* stand for chunk_map (temp_id -> candidate)
PreparePrompt(selector_results, active, maps) ==
    [line |-> PrepareLevel("line", selector_results.line, active, maps),
     phrases |-> PrepareLevel("phrases", selector_results.phrases, active, maps),
     fragments |-> PrepareLevel("fragments", selector_results.fragments, active, maps)]

prepare_prompt_structure(selector_results) ==
    PreparePrompt(selector_results, active_translation_id, used_maps)

NoPrompt == [line |-> <<>>, phrases |-> <<>>, fragments |-> <<>>]

\* sum(len(options) for options in prompt_structure.values())
TotalOptions(prompt, has_metadata) ==
    Len(prompt.line) + Len(prompt.phrases) + Len(prompt.fragments)
        + (IF has_metadata THEN 1 ELSE 0)

----------------------------------------------------------------------------
(* Assembler *)

\* normalize_text of _mini_validate: alphanumeric only, lower case
normalize_text(text) == Lower(KeepAlnum(text))

RECURSIVE InsertByLength(_, _)
InsertByLength(sorted, q) ==
    IF Len(sorted) = 0 THEN <<q>>
    ELSE IF Len(q.normalized) > Len(Head(sorted).normalized) THEN <<q>> \o sorted
    ELSE <<Head(sorted)>> \o InsertByLength(Tail(sorted), q)

RECURSIVE SortByLengthDesc(_, _)
\* all_quotes.sort(key=len(normalized), reverse=True): stable
SortByLengthDesc(quotes, acc) ==
    IF Len(quotes) = 0 THEN acc
    ELSE SortByLengthDesc(Tail(quotes), InsertByLength(acc, Head(quotes)))

\* the index of the first available quote the remaining text starts with, or 0
FirstMatch(remaining_text, available_quotes) ==
    LET hits == {i \in 1..Len(available_quotes) :
                    StartsWith(remaining_text, available_quotes[i].normalized)}
    IN IF hits = {} THEN 0 ELSE CHOOSE i \in hits : \A j \in hits : i <= j

\* the number of quotes _mini_validate matches at most
MaxQuotes == 3

RECURSIVE MatchLoop(_, _, _, _)
\* the for position in range(3) loop of _mini_validate
MatchLoop(position, remaining_text, available_quotes, used_temp_ids) ==
    IF position > MaxQuotes \/ Len(remaining_text) = 0
    THEN [ok |-> Len(remaining_text) = 0, temp_ids |-> used_temp_ids]
    ELSE LET i == FirstMatch(remaining_text, available_quotes)
         IN IF i = 0 THEN [ok |-> FALSE, temp_ids |-> used_temp_ids]
            ELSE MatchLoop(position + 1,
                           SubSeq(remaining_text,
                                  Len(available_quotes[i].normalized) + 1,
                                  Len(remaining_text)),
                           RemoveAt(available_quotes, i),
                           Append(used_temp_ids, available_quotes[i].temp_id))

\* _mini_validate(assembled_line, quote_data); raised: the KeyError of
\* quote["temp_id"] on the entry of the "metadata" form
mini_validate(assembled_line, quote_data, has_metadata) ==
    IF has_metadata THEN [raised |-> TRUE, ok |-> FALSE, temp_ids |-> <<>>]
    ELSE LET entries == quote_data.line \o quote_data.phrases \o quote_data.fragments
             all_quotes == [i \in 1..Len(entries) |->
                               [temp_id |-> entries[i].temp_id,
                                normalized |-> normalize_text(Pool[entries[i].cand].text)]]
             r == MatchLoop(1, normalize_text(assembled_line),
                            SortByLengthDesc(all_quotes, <<>>), <<>>)
         IN [raised |-> FALSE, ok |-> r.ok, temp_ids |-> r.temp_ids]

\* _extract_output: None for an empty or whitespace-only response
ExtractOutput(response_text) ==
    IF Len(Strip(response_text)) = 0
    THEN [parsed |-> FALSE, text |-> <<>>]
    ELSE [parsed |-> TRUE, text |-> Strip(response_text)]

----------------------------------------------------------------------------
(* Validator *)

\* the word tokens of a line: the maximal runs of word characters
RECURSIVE TokenizeFrom(_, _)
TokenizeFrom(text, cur) ==
    IF Len(text) = 0 THEN (IF Len(cur) = 0 THEN <<>> ELSE <<cur>>)
    ELSE IF ~IsAlnum(Head(text))
         THEN (IF Len(cur) = 0 THEN <<>> ELSE <<cur>>) \o TokenizeFrom(Tail(text), <<>>)
         ELSE TokenizeFrom(Tail(text), Append(cur, Head(text)))

_tokenize_line_for_validation(line_text) == TokenizeFrom(line_text, <<>>)

\* _normalize_and_clean: lower case, whitespace runs to one space, stripped
_normalize_and_clean(text) == JoinSpace(Words(Lower(text)))

\* an act or scene the validator treats as null
IsNullish(x) == x = Null \/ x = Missing \/ x = "" \/ x = "null"

\* act_match / scene_match of validate_line
FieldMatch(ref_value, entry_value) ==
    \/ IsNullish(ref_value) /\ IsNullish(entry_value)
    \/ StrOrEmpty(entry_value) = StrOrEmpty(ref_value)

EntryMatches(ref, entry) ==
    /\ entry.title = ref.title
    /\ FieldMatch(ref.act, entry.act)
    /\ FieldMatch(ref.scene, entry.scene)
    /\ StrOrEmpty(entry.line) = StrOrEmpty(ref.line)

\* the first ground-truth entry of the reference, or 0
FindEntry(gt, ref) ==
    LET hits == {i \in 1..Len(gt) : EntryMatches(ref, gt[i])}
    IN IF hits = {} THEN 0 ELSE CHOOSE i \in hits : \A j \in hits : i <= j

\* tokens[start..end] (zero-based, inclusive) of the tokenized line
WordsInRange(tokens, start, end) ==
    LET lo == IF start < 0 THEN 0 ELSE start
        hi == IF end > Len(tokens) - 1 THEN Len(tokens) - 1 ELSE end
    IN IF hi < lo THEN <<>> ELSE SubSeq(tokens, lo + 1, hi + 1)

\* the ground-truth fragment of one reference: found is FALSE when
\* validate_line drops the reference
ExtractFragment(gt, ref) ==
    LET dropped == [found |-> FALSE, text |-> <<>>]
    IN IF ~ref.is_dict THEN dropped
       ELSE IF ref.title \in {Missing, Null, ""} \/ ref.line \in {Missing, ""} THEN dropped
       ELSE LET e == FindEntry(gt, ref)
            IN IF e = 0 THEN dropped
               ELSE IF Len(ref.word_index) = 0
                    THEN [found |-> TRUE, text |-> gt[e].text]
               ELSE IF ~HasChar(ref.word_index, Comma) THEN dropped
               ELSE LET parts == SplitOn(ref.word_index, Comma, <<>>)
                    IN IF ~(Len(parts) = 2 /\ IsInt(parts[1]) /\ IsInt(parts[2]))
                       THEN dropped
                       ELSE LET fragment_words ==
                                    WordsInRange(
                                        _tokenize_line_for_validation(gt[e].text),
                                        IntOf(parts[1]), IntOf(parts[2]))
                            IN IF Len(fragment_words) = 0 THEN dropped
                               ELSE [found |-> TRUE, text |-> JoinSpace(fragment_words)]

\* extracted_fragments_gt of a validate_line that gives up on the whole list when
\* one reference does not resolve
ExtractAllAborting(gt, references) ==
    IF \E i \in 1..Len(references) : ~ExtractFragment(gt, references[i]).found
    THEN <<>>
    ELSE [i \in 1..Len(references) |-> ExtractFragment(gt, references[i]).text]

RECURSIVE ExtractAll(_, _)
\* extracted_fragments_gt: the fragments of the references that resolve, in order
ExtractAll(gt, references) ==
    IF Len(references) = 0 THEN <<>>
    ELSE LET f == ExtractFragment(gt, Head(references))
         IN (IF f.found THEN <<f.text>> ELSE <<>>) \o ExtractAll(gt, Tail(references))

RECURSIVE ConcatAll(_)
ConcatAll(texts) ==
    IF Len(texts) = 0 THEN <<>> ELSE Head(texts) \o ConcatAll(Tail(texts))

\* validate_line(assembled_text, references) of a Validator whose ground truth is gt
ValidateLineIn(gt, assembled_text, references) ==
    LET extracted_fragments_gt == ExtractAll(gt, references)
        normalized_fragments_gt ==
            [i \in 1..Len(extracted_fragments_gt) |->
                _normalize_and_clean(extracted_fragments_gt[i])]
        normalized_assembled == _normalize_and_clean(assembled_text)
        expected_text_gt == JoinSpace(normalized_fragments_gt)
        expected_alpha_only_gt ==
            ConcatAll([i \in 1..Len(normalized_fragments_gt) |->
                          KeepAlnum(normalized_fragments_gt[i])])
    IN IF Len(extracted_fragments_gt) = 0 THEN FALSE
       ELSE \/ normalized_assembled = expected_text_gt
            \/ KeepAlnum(normalized_assembled) = expected_alpha_only_gt

\* validate_line(assembled_text, references) of the validator of the manager
validate_line(assembled_text, references) ==
    ValidateLineIn(ground_truth, assembled_text, references)

----------------------------------------------------------------------------
(* TranslationManager *)

NoRet == [kind |-> "pending", text |-> <<>>, refs |-> <<>>, temp_ids |-> <<>>,
          is_failsafe |-> FALSE]

NoFrame ==
    [use_hybrid_search |-> FALSE, selector_results |-> EmptyArg,
     prompt_structure |-> NoPrompt, has_metadata |-> FALSE,
     working_prompt_data |-> NoPrompt, retries |-> 0,
     assembled_result |-> [text |-> <<>>, temp_ids |-> <<>>],
     references |-> <<>>, pending |-> NoRet]

NoGoodReply == [seen |-> FALSE, cands |-> <<>>]

NoCall == [hybrid |-> FALSE, has_line |-> FALSE, started |-> FALSE]

\* number of translate_line calls of a run
MaxLines == 2

\* number of process crashes of a run
MaxCrashes == 1

\* the session the manager works in
SessionId == "t1"

ctl_vars == <<translation_id, batch_kind, batch_left, batch_status, lines_started,
              crashes, call_info, aux_vars>>

NoneRet == [kind |-> "none", text |-> <<>>, refs |-> <<>>, temp_ids |-> <<>>,
            is_failsafe |-> FALSE]

RaisedRet == [kind |-> "raised", text |-> <<>>, refs |-> <<>>, temp_ids |-> <<>>,
              is_failsafe |-> FALSE]

\* the dict _create_single_quote_result returns for candidate q
FailsafeResult(q) ==
    [kind |-> "result", text |-> Pool[q].text, refs |-> <<q>>,
     temp_ids |-> << <<"failsafe", 1>> >>, is_failsafe |-> TRUE]

\* what identifies a reference of a result: its key fields and its word_index
RefIdent(q) ==
    LET ref == Pool[q].reference
    IN <<ref.title, ref.act, ref.scene, ref.line, ref.word_index>>

\* the entries of a prompt structure, form by form
Entries(prompt) == prompt.line \o prompt.phrases \o prompt.fragments

\* temp_map[temp_id]
CandOf(prompt, temp_id) ==
    LET es == Entries(prompt)
    IN es[CHOOSE i \in 1..Len(es) : es[i].temp_id = temp_id].cand

\* the locals the steps from p on still read
Live(p, f) ==
    IF p \in {"failsafe", "extended"}
    THEN [NoFrame EXCEPT !.use_hybrid_search = f.use_hybrid_search,
                         !.selector_results = f.selector_results]
    ELSE IF p \in {"save_open", "save_dump"}
    THEN [NoFrame EXCEPT !.pending = f.pending]
    ELSE IF p \in {"failsafe_search", "emergency", "hybrid_fallback"}
    THEN NoFrame
    ELSE f

\* a step of translate_line that goes on to p with locals f
Goto(p, f) ==
    /\ pc' = p
    /\ frame' = Live(p, f)
    /\ UNCHANGED <<ret, committed, returned_refs, reused>>
    /\ UNCHANGED ctl_vars

\* translate_line returns r to its caller
Return(r) ==
    /\ pc' = "returned"
    /\ frame' = NoFrame
    /\ ret' = r
    /\ committed' = committed \cup {<<m.key, m.indices>> : m \in line_marks}
    /\ returned_refs' = returned_refs \cup {RefIdent(r.refs[i]) : i \in 1..Len(r.refs)}
    /\ reused' = \/ reused
                 \/ \E i \in 1..Len(r.refs) : RefIdent(r.refs[i]) \in returned_refs
                 \/ \E i, j \in 1..Len(r.refs) :
                        i # j /\ RefIdent(r.refs[i]) = RefIdent(r.refs[j])
    /\ UNCHANGED ctl_vars

NoMark == UNCHANGED <<um_vars, line_marks, recorded>>

\* a step that records nothing and goes on to p
Step(p, f) == Goto(p, f) /\ NoMark /\ UNCHANGED <<validated, good_reply, oracle_calls>>

\* a return that records nothing
Finish(r) == Return(r) /\ NoMark /\ UNCHANGED <<validated, good_reply, oracle_calls>>

\* start_translation_session(tid)
StartSession(tid) ==
    /\ pc = "idle"
    /\ translation_id' = tid
    /\ Load(tid)
    /\ recorded' = {}
    /\ UNCHANGED <<aux_vars, um_marks, pc, frame, ret, batch_kind, batch_left, batch_status,
                   lines_started, crashes, validated, line_marks, committed,
                   returned_refs, reused, good_reply, oracle_calls, call_info>>

\* the entry of translate_line(modern_line, sel, use_hybrid_search=hybrid)
Begin(sel, hybrid) ==
    /\ lines_started' = lines_started + 1
    /\ call_info' = [hybrid |-> hybrid, started |-> translation_id # NoId,
                     has_line |-> /\ sel.has_keys
                                  /\ Len(sel.line) > 0
                                  /\ Pool[sel.line[1]].reference.is_dict]
    /\ validated' = FALSE
    /\ line_marks' = {}
    /\ good_reply' = NoGoodReply
    /\ oracle_calls' = 0
    /\ UNCHANGED <<aux_vars, um_vars, recorded, committed, returned_refs, reused>>
    /\ IF translation_id = NoId
       THEN \* RuntimeError("Translation session not started")
            /\ pc' = "returned"
            /\ ret' = RaisedRet
            /\ frame' = NoFrame
       ELSE /\ pc' = IF hybrid /\ ~sel.has_keys THEN "hybrid_initial" ELSE "prepare"
            /\ ret' = NoRet
            /\ frame' = [NoFrame EXCEPT !.use_hybrid_search = hybrid,
                                        !.selector_results = sel]

\* a caller calls translate_line directly
CallTranslateLine(sel, hybrid) ==
    /\ pc = "idle"
    /\ lines_started < MaxLines
    /\ Begin(sel, hybrid)
    /\ UNCHANGED <<translation_id, batch_kind, batch_left, batch_status, crashes>>

\* mutant: an exception of _create_single_quote_result reaches the caller
CreateSingleUncaught(q, raise_to) ==
    IF ~Pool[q].reference.is_dict THEN Finish(RaisedRet) ELSE Finish(FailsafeResult(q))

\* _create_single_quote_result(Pool[q]): raise_to says where an exception of it
\* goes, to the emergency failsafe or into an except clause that returns None
CreateSingle(q, raise_to) ==
    LET ref == Pool[q].reference
        fi == FailsafeIndices(ref.word_index)
    IN IF ~ref.is_dict
       THEN IF raise_to = "emergency" THEN Step("emergency", frame) ELSE Finish(NoneRet)
       ELSE IF fi.ok
            THEN /\ MarkUsedAll(<< <<RecorderKey(ref), fi.indices>> >>)
                 /\ line_marks' = line_marks \cup
                        {[key |-> RecorderKey(ref), indices |-> fi.indices, by |-> "failsafe"]}
                 /\ recorded' = recorded \cup {q}
                 /\ Goto("save_open", [frame EXCEPT !.pending = FailsafeResult(q)])
                 /\ UNCHANGED <<um_marks, validated, good_reply, oracle_calls>>
            ELSE Finish(FailsafeResult(q))

\* a search for one line to fall back on (rag.retrieve_all(modern_line, top_k=1))
\* inside a try whose except clause gives up with None
FallbackSearch ==
    \/ Finish(NoneRet)                                \* the search raises
    \/ \E r \in SearchResults :
          IF Len(r.line) > 0 THEN CreateSingle(r.line[1], "none") ELSE Finish(NoneRet)

\* lines 100-121: the hybrid search translate_line runs when it was given no results
HybridInitial ==
    /\ pc = "hybrid_initial"
    /\ \E r \in SearchResults :
          IF Len(r.line) + Len(r.phrases) + Len(r.fragments) = 0
          THEN Step("hybrid_fallback", [frame EXCEPT !.selector_results = r])
          ELSE Step("prepare", [frame EXCEPT !.selector_results = r])

\* lines 123-141: the fallback of a failed initial hybrid search
HybridFallback == pc = "hybrid_fallback" /\ FallbackSearch

\* the locals of translate_line once prompt_structure is prepared
WithPrompt(f, prompt, has_metadata) ==
    [f EXCEPT !.prompt_structure = prompt, !.has_metadata = has_metadata,
              !.working_prompt_data = prompt, !.retries = 0]

\* lines 159-163: the metadata entry is added and the options are counted
CountOptions(prompt) ==
    IF TotalOptions(prompt, TRUE) < 3
    THEN Step("extended", WithPrompt(frame, prompt, TRUE))
    ELSE Step("assemble", WithPrompt(frame, prompt, TRUE))

\* STEP 1: prepare_prompt_structure and the count of the options
Prepare ==
    /\ pc = "prepare"
    /\ CountOptions(prepare_prompt_structure(frame.selector_results))

\* lines 176-188: the prompt of the extended search, which must have an option
CountExtended(prompt) ==
    IF TotalOptions(prompt, FALSE) < 1
    THEN Step("failsafe", WithPrompt(frame, prompt, FALSE))
    ELSE Step("assemble", WithPrompt(frame, prompt, FALSE))

\* lines 165-188: the extended search and the second prepare_prompt_structure
Extended ==
    /\ pc = "extended"
    /\ \/ Step("failsafe", frame)                     \* the search raises
       \/ \E r \in SearchResults : CountExtended(prepare_prompt_structure(r))

\* the permutations of a list
Perms(seq) ==
    {p \in [1..Len(seq) -> SeqToSet(seq)] :
        \A i, j \in 1..Len(seq) : i # j => p[i] # p[j]}

\* mutant: list.pop() whenever the list has an element
PopLastAlways(seq) == IF Len(seq) > 0 THEN SubSeq(seq, 1, Len(seq) - 1) ELSE seq

\* list.pop() when the list has more than one element
PopLast(seq) == IF Len(seq) > 1 THEN SubSeq(seq, 1, Len(seq) - 1) ELSE seq

\* the prompt data a retry of assemble_line can work with
Shuffled(working) ==
    {[line |-> l, phrases |-> p, fragments |-> f] :
        l \in Perms(PopLast(working.line)),
        p \in Perms(PopLast(working.phrases)),
        f \in Perms(PopLast(working.fragments))}

\* the lists of 1 to MaxQuotes distinct candidates of a prompt
QuoteChoices(working) ==
    LET cands == {e.cand : e \in SeqToSet(Entries(working))}
    IN {c \in UNION {[1..k -> cands] : k \in 1..MaxQuotes} :
            \A i, j \in 1..Len(c) : i # j => c[i] # c[j]}

TextsOf(cands) == [i \in 1..Len(cands) |-> Pool[cands[i]].text]

\* what the oracle can answer: an exception, an empty answer, a comma, a word
\* that is in no candidate, or candidates of the prompt joined by spaces
OracleReplies(working) ==
    {[kind |-> "raise", text |-> <<>>, used |-> <<>>],
     [kind |-> "text", text |-> <<Space>>, used |-> <<>>],
     [kind |-> "text", text |-> <<20>>, used |-> <<>>],
     [kind |-> "text", text |-> <<9>>, used |-> <<>>]}
    \cup {[kind |-> "text", text |-> JoinSpace(TextsOf(c)), used |-> c] :
            c \in QuoteChoices(working)}

RefsOf(cands) == [i \in 1..Len(cands) |-> Pool[cands[i]].reference]

\* the reply is an assembly that validate_line accepts, given in standard mode
\* to a prompt of at least 3 candidates
IsGoodReply(reply) ==
    /\ ~frame.use_hybrid_search
    /\ frame.has_metadata
    /\ Len(Entries(frame.prompt_structure)) >= 3
    /\ Len(reply.used) >= 1
    /\ validate_line(reply.text, RefsOf(reply.used))

\* mutant: a hybrid assembly is retried once too
MaxRetriesAlwaysOne(use_hybrid_search) == 1

\* max_retries = 0 if use_hybrid_search else 1
max_retries(use_hybrid_search) == IF use_hybrid_search THEN 0 ELSE 1

\* STEP 2: one pass of the while loop of assemble_line, and what translate_line
\* does when assemble_line ends
AssembleAttempt ==
    /\ pc = "assemble"
    /\ \E working \in (IF frame.retries > 0 THEN Shuffled(frame.working_prompt_data)
                       ELSE {frame.working_prompt_data}) :
       \E reply \in OracleReplies(working) :
         LET parsed == ExtractOutput(reply.text)
             mv == mini_validate(parsed.text, working, frame.has_metadata)
             f == [frame EXCEPT !.working_prompt_data = working]
             failed == \* this attempt ends with retries += 1
                 IF frame.retries + 1 <= max_retries(frame.use_hybrid_search)
                 THEN Goto("assemble", [f EXCEPT !.retries = frame.retries + 1])
                 ELSE IF ~frame.use_hybrid_search
                      THEN \* return self.translate_line(modern_line, {}, True)
                           Goto("hybrid_initial",
                                [NoFrame EXCEPT !.use_hybrid_search = TRUE]) 
                      ELSE Goto("failsafe", f)
         IN /\ NoMark
            /\ validated' = validated
            /\ oracle_calls' = oracle_calls + 1
            /\ good_reply' = IF reply.kind = "text" /\ ~good_reply.seen /\ IsGoodReply(reply)
                             THEN [seen |-> TRUE, cands |-> reply.used]
                             ELSE good_reply
            /\ IF reply.kind = "raise" THEN Goto("failsafe", f)
               ELSE IF ~parsed.parsed THEN failed
               ELSE IF mv.raised THEN Goto("failsafe", f)
               ELSE IF ~mv.ok THEN failed
               ELSE Goto("validate",
                         [f EXCEPT !.assembled_result =
                                      [text |-> parsed.text, temp_ids |-> mv.temp_ids]])

\* mutant: STEP 5 does not stop a line that validate_line rejects
ValidateIgnored ==
    /\ pc = "validate"
    /\ NoMark
    /\ UNCHANGED <<good_reply, oracle_calls>>
    /\ validated' = validated
    /\ Goto("mark", [frame EXCEPT !.references =
                        [i \in 1..Len(frame.assembled_result.temp_ids) |->
                            CandOf(frame.prompt_structure, frame.assembled_result.temp_ids[i])]])

\* STEPS 3 to 5: the checks of the assembler output and validator.validate_line
Validate ==
    /\ pc = "validate"
    /\ LET assembled_text == Strip(frame.assembled_result.text)
           temp_ids_used == frame.assembled_result.temp_ids
           used_candidates == [i \in 1..Len(temp_ids_used) |->
                                  CandOf(frame.prompt_structure, temp_ids_used[i])]
       IN /\ NoMark
          /\ UNCHANGED <<good_reply, oracle_calls>>
          /\ IF Len(assembled_text) = 0 \/ Len(temp_ids_used) = 0
             THEN validated' = validated /\ Goto("failsafe", frame)
             ELSE \/ validated' = validated /\ Goto("failsafe", frame)   \* the validator raises
                  \/ IF validate_line(assembled_text, RefsOf(used_candidates))
                     THEN /\ validated' = TRUE
                          /\ Goto("mark", [frame EXCEPT !.references = used_candidates])
                     ELSE validated' = validated /\ Goto("failsafe", frame)

RECURSIVE RecorderPairs(_)
\* the <<key, indices>> STEP 6 marks for a list of candidates
RecorderPairs(cands) ==
    IF Len(cands) = 0 THEN <<>>
    ELSE LET ref == Pool[Head(cands)].reference
             ri == RecorderIndices(ref.word_index)
         IN (IF ri.ok THEN << <<RecorderKey(ref), ri.indices>> >> ELSE <<>>)
            \o RecorderPairs(Tail(cands))

\* STEP 6, the loop: mark_used for every reference of the validated line
Mark ==
    /\ pc = "mark"
    /\ LET pairs == RecorderPairs(frame.references)
           result == [kind |-> "result", text |-> Strip(frame.assembled_result.text),
                      refs |-> frame.references,
                      temp_ids |-> frame.assembled_result.temp_ids,
                      is_failsafe |-> FALSE]
       IN /\ MarkUsedAll(pairs)
          /\ line_marks' = line_marks \cup
                {[key |-> pairs[i][1], indices |-> pairs[i][2], by |-> "step6"] :
                    i \in 1..Len(pairs)}
          /\ recorded' = recorded \cup
                {c \in SeqToSet(frame.references) :
                    RecorderIndices(Pool[c].reference.word_index).ok}
          /\ Goto("save_open", [frame EXCEPT !.pending = result])
          /\ UNCHANGED <<um_marks, validated, good_reply, oracle_calls>>

\* used_map.save(), first half: the ledger file is opened for writing
SaveOpenStep ==
    /\ pc = "save_open"
    /\ SaveOpen
    /\ Goto("save_dump", frame)
    /\ UNCHANGED <<um_marks, line_marks, recorded, validated, good_reply, oracle_calls>>

\* used_map.save(), second half, and the return of the result
SaveDumpStep ==
    /\ pc = "save_dump"
    /\ SaveDump
    /\ Return(frame.pending)
    /\ UNCHANGED <<um_marks, line_marks, recorded, validated, good_reply, oracle_calls>>

\* lines 325-336: the except clause of the assembly process
Failsafe ==
    /\ pc = "failsafe"
    /\ LET sel == frame.selector_results
       IN IF sel.has_keys /\ Len(sel.line) > 0
          THEN CreateSingle(sel.line[1], "emergency")
          ELSE Step("failsafe_search", frame)

\* lines 338-351: the new search of the failsafe
FailsafeSearch == pc = "failsafe_search" /\ FallbackSearch

\* lines 353-372: the emergency failsafe of the outer except clause
Emergency == pc = "emergency" /\ FallbackSearch

\* the caller takes the value translate_line returned
Continue ==
    /\ pc = "returned"
    /\ IF batch_kind = "none"
       THEN pc' = "idle" /\ UNCHANGED batch_left
       ELSE pc' = "batch_loop" /\ batch_left' = batch_left - 1
    /\ ret' = NoRet
    /\ validated' = FALSE
    /\ line_marks' = {}
    /\ good_reply' = NoGoodReply
    /\ oracle_calls' = 0
    /\ call_info' = NoCall
    /\ UNCHANGED <<aux_vars, um_vars, translation_id, frame, batch_kind, batch_status,
                   lines_started, crashes, committed, recorded, returned_refs, reused>>

\* translate_scene(lines) or translate_group(lines, use_hybrid_search) is called
BatchStart(kind, n) ==
    /\ pc = "idle"
    /\ translation_id # NoId
    /\ lines_started + n <= MaxLines
    /\ pc' = "batch_loop"
    /\ batch_kind' = kind
    /\ batch_left' = n
    /\ batch_status' = "none"
    /\ UNCHANGED <<aux_vars, um_vars, translation_id, frame, ret, lines_started, crashes,
                   validated, line_marks, committed, recorded, returned_refs, reused,
                   good_reply, oracle_calls, call_info>>

\* the batch call ends with an exception
BatchRaise ==
    /\ pc' = "idle"
    /\ batch_kind' = "none"
    /\ batch_left' = 0
    /\ batch_status' = "raised"
    /\ UNCHANGED <<aux_vars, um_vars, translation_id, frame, ret, lines_started, crashes,
                   validated, line_marks, committed, recorded, returned_refs, reused,
                   good_reply, oracle_calls, call_info>>

\* one pass of the for loop of translate_scene or translate_group: the search
\* for the line, then translate_line
BatchLine ==
    /\ pc = "batch_loop"
    /\ batch_left > 0
    /\ IF batch_kind = "group_hybrid"
       THEN \E r \in SearchResults :                 \* rag.hybrid_search(line)
               Begin(r, TRUE)
               /\ UNCHANGED <<translation_id, batch_kind, batch_left, batch_status, crashes>>
       ELSE \/ BatchRaise                            \* rag.retrieve_all(line) raises
            \/ \E r \in SearchResults :
                  Begin(r, FALSE)
                  /\ UNCHANGED <<translation_id, batch_kind, batch_left, batch_status, crashes>>

\* the batch call returns its list of results
BatchEnd ==
    /\ pc = "batch_loop"
    /\ batch_left = 0
    /\ pc' = "idle"
    /\ batch_kind' = "none"
    /\ batch_status' = "returned"
    /\ UNCHANGED <<aux_vars, um_vars, translation_id, frame, ret, batch_left, lines_started,
                   crashes, validated, line_marks, committed, recorded, returned_refs,
                   reused, good_reply, oracle_calls, call_info>>

\* the process dies: everything but the ledger files is lost
Crash ==
    /\ translation_id # NoId
    /\ crashes < MaxCrashes
    /\ crashes' = crashes + 1
    /\ active_translation_id' = NoId
    /\ used_maps' = EmptyDict
    /\ um_last' = [op |-> "crash", id |-> NoId, had_file |-> FALSE]
    /\ um_marked' = {}
    /\ um_marked_active' = {}
    /\ translation_id' = NoId
    /\ pc' = "idle"
    /\ frame' = NoFrame
    /\ ret' = NoRet
    /\ batch_kind' = "none"
    /\ batch_left' = 0
    /\ batch_status' = "none"
    /\ validated' = FALSE
    /\ line_marks' = {}
    /\ recorded' = {}
    /\ good_reply' = NoGoodReply
    /\ oracle_calls' = 0
    /\ call_info' = NoCall
    /\ UNCHANGED <<aux_vars, files, um_marks, lines_started, committed, returned_refs, reused>>

MgrInit ==
    /\ translation_id = NoId
    /\ pc = "idle"
    /\ frame = NoFrame
    /\ ret = NoRet
    /\ batch_kind = "none"
    /\ batch_left = 0
    /\ batch_status = "none"
    /\ lines_started = 0
    /\ crashes = 0
    /\ validated = FALSE
    /\ line_marks = {}
    /\ committed = {}
    /\ recorded = {}
    /\ returned_refs = {}
    /\ reused = FALSE
    /\ good_reply = NoGoodReply
    /\ oracle_calls = 0
    /\ call_info = NoCall

UMInit ==
    /\ active_translation_id = NoId
    /\ used_maps = EmptyDict
    /\ files = [t \in IDS |-> AbsentFile]
    /\ um_last = [op |-> "init", id |-> NoId, had_file |-> FALSE]
    /\ um_marked = {}
    /\ um_marked_active = {}
    /\ um_marks = 0

\* a mark_used call of the driver, which stops after MaxMarks of them
UMMark(k, r) ==
    /\ um_marks < MaxMarks
    /\ um_marks' = um_marks + 1
    /\ MarkUsed(k, r)
    /\ UNCHANGED <<mgr_vars, aux_vars>>

UMLoad(tid) == Load(tid) /\ UNCHANGED <<um_marks, mgr_vars, aux_vars>>

UMSave == Save /\ UNCHANGED <<um_marks, mgr_vars, aux_vars>>

UMReset == Reset /\ UNCHANGED <<um_marks, mgr_vars, aux_vars>>

UMNext ==
    \/ \E tid \in IDS : UMLoad(tid)
    \/ \E k \in UMKeys, r \in UMRanges : UMMark(k, r)
    \/ UMSave
    \/ UMReset

\* chunk_text before its first input line
LcInit ==
    /\ current_title = "Unknown"
    /\ current_act = Null
    /\ current_scene = Null
    /\ scene_line_index = 0
    /\ chunks = <<>>
    /\ lines_read = 0

\* no direct validate_line call
ValIdle ==
    /\ val_text = <<>>
    /\ val_refs = <<>>
    /\ val_result = "pending"

\* no FragmentChunker run
FcIdle ==
    fragment_chunker = [pc |-> "idle", SPACY_AVAILABLE |-> FALSE, line_text |-> <<>>,
                        token |-> 0, i |-> 0, used_indices |-> {}, chunks |-> <<>>]

\* no PhraseChunker run
PcIdle ==
    phrase_chunker = [pc |-> "idle", line_text |-> <<>>, phrase_idx |-> 0,
                      used_indices |-> {}, chunks |-> <<>>]

\* no direct rank_candidates call
RkIdle == ranker = [candidates |-> <<>>, lambda10 |-> 0, runs |-> <<>>]

\* no direct assemble_line call
AsmIdle ==
    assembler = [pc |-> "idle", max_retries |-> 0, has_metadata |-> FALSE,
                 working_prompt_data |-> NoPrompt, retries |-> 0, oracle_calls |-> 0,
                 failed_attempts |-> 0, result |-> "pending"]

\* no client has begun a session
SessIdle == sessions = [t \in IDS |-> [started |-> FALSE, marked |-> {}]]

\* no direct filter_candidates call
FilterIdle ==
    filter_call = [candidates |-> <<>>, filtered |-> <<>>, called |-> FALSE,
                   recorded_before |-> {}]

\* no direct _mini_validate call
MiniIdle ==
    mini_call = [texts |-> <<>>, used |-> <<>>, garbled |-> FALSE, has_metadata |-> FALSE,
                 assembled_line |-> <<>>, result |-> "pending", temp_ids |-> <<>>]

ExtIdle == SessIdle /\ FilterIdle /\ MiniIdle

AuxInit == LcInit /\ ValIdle /\ FcIdle /\ PcIdle /\ RkIdle /\ AsmIdle /\ ExtIdle

vars == <<um_vars, mgr_vars, aux_vars>>

Init == UMInit /\ MgrInit /\ AuxInit

SpecUM == Init /\ [][UMNext]_vars

\* the selector_results a caller of translate_line passes
CallerInputs == SearchResults \cup {EmptyArg}

\* the steps inside translate_line, and its caller taking the result
LineStep ==
    \/ HybridInitial
    \/ HybridFallback
    \/ Prepare
    \/ Extended
    \/ AssembleAttempt
    \/ Validate
    \/ Mark
    \/ SaveOpenStep
    \/ SaveDumpStep
    \/ Failsafe
    \/ FailsafeSearch
    \/ Emergency
    \/ Continue

\* a caller that translates line by line
Next ==
    \/ StartSession(SessionId)
    \/ \E sel \in CallerInputs, hybrid \in BOOLEAN : CallTranslateLine(sel, hybrid)
    \/ LineStep

Spec == Init /\ [][Next]_vars

\* a caller that translates scenes and groups
NextBatch ==
    \/ StartSession(SessionId)
    \/ \E kind \in {"scene", "group", "group_hybrid"}, n \in 1..MaxLines : BatchStart(kind, n)
    \/ BatchLine
    \/ BatchEnd
    \/ LineStep

SpecBatch == Init /\ [][NextBatch]_vars

\* a caller that translates line by line in a process that can die
NextCrash ==
    \/ Next
    \/ Crash

SpecCrash == Init /\ [][NextCrash]_vars

----------------------------------------------------------------------------
(* LineChunker *)

\* the most input lines chunk_text is given
MaxInputLines == 4

Hyphen == 22

\* self.shakespeare_titles as they can appear in the text
TitleLines == {"T"}
\* the numerals an "ACT ..." line can carry
ActLines == {"I", "II"}
\* the numerals a "SCENE ..." line can carry
SceneLines == {"1"}
\* the other non-empty lines: "a b", "c", "AB", "," and "--"
OtherLines == { <<1, 0, 2>>, <<3>>, <<11, 12>>, <<20>>, <<Hyphen, Hyphen>> }

\* all_caps_pattern: only capitals, whitespace and . , ; : ! ?
_is_structural_line(line) ==
    \A i \in 1..Len(line) : IsUpper(line[i]) \/ line[i] = Space \/ line[i] \in 20..21

\* _process_line_with_spacy: the word tokens of the line
_process_line_with_spacy(line) == TokenizeFrom(line, <<>>)

\* str(n) of a word index, as a word_index string
IndexStr(n) == IF n < 0 THEN <<Dash, 0 - n>> ELSE <<n>>

\* the chunk chunk_text appends for a spoken line
LineChunk(title, act, scene, index, line) ==
    [title |-> title, act |-> act, scene |-> scene, line |-> ToString(index),
     text |-> line,
     word_index |-> <<0, Comma>> \o IndexStr(Len(_process_line_with_spacy(line)) - 1)]

\* the components other than the LineChunker
NotLc ==
    UNCHANGED <<um_vars, mgr_vars, val_vars, fragment_chunker, phrase_chunker, ranker,
                assembler, ext_vars>>

\* an empty line
ReadBlank ==
    /\ lines_read < MaxInputLines
    /\ lines_read' = lines_read + 1
    /\ UNCHANGED <<current_title, current_act, current_scene, scene_line_index, chunks>>
    /\ NotLc

\* a line that is a known title
ReadTitle(line) ==
    /\ lines_read < MaxInputLines
    /\ lines_read' = lines_read + 1
    /\ current_title' = line
    /\ current_act' = Null
    /\ current_scene' = Null
    /\ scene_line_index' = 0
    /\ UNCHANGED chunks
    /\ NotLc

\* a line that matches act_pattern
ReadAct(numeral) ==
    /\ lines_read < MaxInputLines
    /\ lines_read' = lines_read + 1
    /\ current_act' = numeral
    /\ current_scene' = Null
    /\ scene_line_index' = 0
    /\ UNCHANGED <<current_title, chunks>>
    /\ NotLc

\* a line that matches scene_pattern
ReadScene(numeral) ==
    /\ lines_read < MaxInputLines
    /\ lines_read' = lines_read + 1
    /\ current_scene' = numeral
    /\ scene_line_index' = 0
    /\ UNCHANGED <<current_title, current_act, chunks>>
    /\ NotLc

\* any other line (no title of the model holds "SONNETS"): skipped when it is
\* structural, chunked otherwise
ReadLine(line) ==
    /\ lines_read < MaxInputLines
    /\ lines_read' = lines_read + 1
    /\ IF _is_structural_line(line)
       THEN UNCHANGED <<scene_line_index, chunks>>
       ELSE /\ scene_line_index' = scene_line_index + 1
            /\ chunks' = Append(chunks, LineChunk(current_title, current_act, current_scene,
                                                  scene_line_index + 1, line))
    /\ UNCHANGED <<current_title, current_act, current_scene>>
    /\ NotLc

NextChunk ==
    \/ ReadBlank
    \/ \E line \in TitleLines : ReadTitle(line)
    \/ \E numeral \in ActLines : ReadAct(numeral)
    \/ \E numeral \in SceneLines : ReadScene(numeral)
    \/ \E line \in OtherLines : ReadLine(line)

\* chunk_text reading its input line by line
SpecChunk == Init /\ [][NextChunk]_vars

\* the CandidateQuote the store returns for a line chunk: its text and metadata
QuoteOf(chunk) ==
    [text |-> chunk.text,
     reference |-> Ref(chunk.title, chunk.act, chunk.scene, chunk.line,
                       chunk.word_index, <<>>)]

\* reference.get(key, default) of _create_single_quote_result
GetOr(value, default) == IF value = Missing THEN default ELSE value

\* the result _create_single_quote_result returns for a quote
SingleQuoteResult(quote) ==
    [text |-> quote.text,
     temp_ids |-> <<"failsafe_1">>,
     references |->
        << [is_dict |-> TRUE,
            title |-> GetOr(quote.reference.title, "Unknown"),
            act |-> GetOr(quote.reference.act, "Unknown"),
            scene |-> GetOr(quote.reference.scene, "Unknown"),
            line |-> GetOr(quote.reference.line, "Unknown"),
            \* every reference of the model has the word_index key
            word_index |-> quote.reference.word_index,
            POS |-> <<>>] >>,
     is_failsafe |-> TRUE]

----------------------------------------------------------------------------
(* Validator called on its own *)

\* the most references a direct validate_line call is given
MaxRefs == 2

\* the assembled texts: "a b", "A  b", "ab", "a, b", "a b c d", "c d a b", "h",
\* "a b h" and the empty text
ValTexts ==
    { <<1, 0, 2>>, <<11, 0, 0, 2>>, <<1, 2>>, <<1, 20, 0, 2>>, <<1, 0, 2, 0, 3, 0, 4>>,
      <<3, 0, 4, 0, 1, 0, 2>>, <<8>>, <<1, 0, 2, 0, 8>>, <<>> }

\* the references: "a b" and "c d" of line 1, "h" of line 2, a line of a title the
\* corpus does not have, a range past the end of line 1, line 2 with an empty
\* word_index, and line 1 with a word_index that has no comma
ValRefs ==
    { Ref("T", "I", "1", "1", <<0, Comma, 1>>, <<>>),
      Ref("T", "I", "1", "1", <<2, Comma, 3>>, <<>>),
      Ref("T", "I", "1", "2", <<0, Comma, 0>>, <<>>),
      Ref("X", "I", "1", "1", <<0, Comma, 0>>, <<>>),
      Ref("T", "I", "1", "1", <<5, Comma, 6>>, <<>>),
      Ref("T", "I", "1", "2", <<>>, <<>>),
      Ref("T", "I", "1", "1", <<0>>, <<>>) }

\* the sequences of at most n references
RECURSIVE RefSeqs(_)
RefSeqs(n) ==
    IF n = 0 THEN { <<>> }
    ELSE RefSeqs(n - 1)
            \cup { Append(rs, r) : rs \in {x \in RefSeqs(n - 1) : Len(x) = n - 1}, r \in ValRefs }

\* a Validator over the corpus and the arguments of one validate_line call
InitValidate ==
    /\ UMInit
    /\ MgrInit
    /\ LcInit
    /\ FcIdle
    /\ PcIdle
    /\ RkIdle
    /\ AsmIdle
    /\ ExtIdle
    /\ val_text \in ValTexts
    /\ val_refs \in RefSeqs(MaxRefs)
    /\ val_result = "pending"

\* the call validate_line(val_text, val_refs)
CallValidateLine ==
    /\ val_result = "pending"
    /\ val_result' = IF validate_line(val_text, val_refs) THEN "True" ELSE "False"
    /\ UNCHANGED <<val_text, val_refs, um_vars, mgr_vars, lc_vars, fragment_chunker,
                   phrase_chunker, ranker, assembler, ext_vars>>

SpecValidate == InitValidate /\ [][CallValidateLine]_vars

----------------------------------------------------------------------------
(* FragmentChunker *)

\* the most word tokens of a line given to the fragment and phrase chunkers
MaxTokens == 9

\* self.min_words and the max_words chunk_from_line_chunks forces
min_words == 3
max_words == 6

\* the line "a b c ..." of n one-letter words
PlainLine(n) == [k \in 1..(IF n = 0 THEN 0 ELSE 2 * n - 1) |->
                    IF k % 2 = 0 THEN Space ELSE (((k + 1) \div 2 - 1) % 9) + 1]

\* the texts of the line chunks: the plain lines, "a b c a b c", "a a a a a a",
\* "a b c, d e f.", "a b c, a b c", "a b c d, b c d" and "a b. c d e, f g h, i"
ChunkerLines ==
    { PlainLine(n) : n \in 1..MaxTokens }
        \cup { <<1, 0, 2, 0, 3, 0, 1, 0, 2, 0, 3>>,
               <<1, 0, 1, 0, 1, 0, 1, 0, 1, 0, 1>>,
               <<1, 0, 2, 0, 3, 20, 0, 4, 0, 5, 0, 6, 21>>,
               <<1, 0, 2, 0, 3, 20, 0, 1, 0, 2, 0, 3>>,
               <<1, 0, 2, 0, 3, 0, 4, 20, 0, 2, 0, 3, 0, 4>>,
               <<1, 0, 2, 21, 0, 3, 0, 4, 0, 5, 20, 0, 6, 0, 7, 0, 8, 20, 0, 9>> }

\* the number of tokens of line_doc: the words and the punctuation marks
DocLen(line_text) ==
    Len(TokenizeFrom(line_text, <<>>))
        + Cardinality({k \in 1..Len(line_text) : line_text[k] \in 20..21})

\* the word positions token.subtree can cover in a line of n words: the span
\* lo..hi of the line, whole (gap = -1) or without its inner word gap
Subtrees(n) ==
    { <<lo, hi, gap>> \in (0..(n - 1)) \X (0..(n - 1)) \X ((0 - 1)..(n - 1)) :
        lo <= hi /\ (gap = 0 - 1 \/ (lo < gap /\ gap < hi)) }

\* the positions of a subtree, in the order of the line
Positions(subtree) ==
    LET lo == subtree[1]
        hi == subtree[2]
        gap == subtree[3]
    IN IF gap < 0 THEN [k \in 1..(hi - lo + 1) |-> lo + k - 1]
       ELSE [k \in 1..(hi - lo) |-> IF lo + k - 1 < gap THEN lo + k - 1 ELSE lo + k]

\* mutant: the first i at which the first word is found
FirstAlignmentFirstWord(token_words, word_texts) ==
    LET fits == {i \in 0..(Len(token_words) - Len(word_texts)) :
                    Len(word_texts) = 0 \/ token_words[i + 1] = word_texts[1]}
    IN IF fits = {} THEN 0 - 1 ELSE CHOOSE i \in fits : \A j \in fits : i <= j

\* the first i with token_words[i:i+len(word_texts)] == word_texts, or -1
FirstAlignment(token_words, word_texts) ==
    LET fits == {i \in 0..(Len(token_words) - Len(word_texts)) :
                    SubSeq(token_words, i + 1, i + Len(word_texts)) = word_texts}
    IN IF fits = {} THEN 0 - 1 ELSE CHOOSE i \in fits : \A j \in fits : i <= j

\* a chunk: its word_index range, the strategy that made it, its text
\* (" ".join(words).strip()) and its word_count (len(words))
RangeChunk(start, end, strategy, words) ==
    [start |-> start, end |-> end, strategy |-> strategy,
     text |-> Strip(JoinSpace(words)), word_count |-> Len(words)]

\* an overlap test that never finds an overlap
OverlapsNever(used_indices, a, b) == FALSE

\* true when some index of a..b is in used_indices
Overlaps(used_indices, a, b) == \E idx \in a..b : idx \in used_indices

\* a window that takes all the words from position i on
FirstWindowUnbounded(i, n, used_indices) ==
    IF Overlaps(used_indices, i, n - 1) THEN 0 ELSE n - i

\* the largest window at position i that fits in the line and avoids
\* used_indices, or 0
FirstWindow(i, n, used_indices) ==
    LET ok == {w \in min_words..max_words :
                    i + w <= n /\ ~Overlaps(used_indices, i, i + w - 1)}
    IN IF ok = {} THEN 0 ELSE CHOOSE w \in ok : \A v \in ok : v <= w

\* the components other than the FragmentChunker
NotFc ==
    UNCHANGED <<um_vars, mgr_vars, lc_vars, val_vars, phrase_chunker, ranker, assembler,
                ext_vars>>

\* what the loop over line_doc does with one token, given its subtree
FcSubtreeOf(token_words, subtree) ==
    /\ LET positions == Positions(subtree)
           word_texts == [k \in 1..Len(positions) |-> token_words[positions[k] + 1]]
           word_index_start == FirstAlignment(token_words, word_texts)
           word_index_end == word_index_start + Len(word_texts) - 1
           next == [fragment_chunker EXCEPT !.token = @ + 1]
       IN IF Len(word_texts) < min_words \/ Len(word_texts) > max_words
          THEN fragment_chunker' = next
          ELSE IF word_index_start < 0
                  \/ Overlaps(fragment_chunker.used_indices, word_index_start, word_index_end)
          THEN fragment_chunker' = next
          ELSE fragment_chunker' =
                  [next EXCEPT !.used_indices = @ \cup (word_index_start..word_index_end),
                               !.chunks = Append(@, RangeChunk(word_index_start,
                                                               word_index_end, "subtree",
                                                               word_texts))]

\* one iteration of the loop over line_doc, with the subtree spaCy reports
FcSubtree ==
    /\ fragment_chunker.pc = "subtree"
    /\ fragment_chunker.token < DocLen(fragment_chunker.line_text)
    /\ \E subtree \in Subtrees(Len(TokenizeFrom(fragment_chunker.line_text, <<>>))) :
            FcSubtreeOf(TokenizeFrom(fragment_chunker.line_text, <<>>), subtree)
    /\ NotFc

\* the end of the loop over line_doc
FcSubtreeEnd ==
    /\ fragment_chunker.pc = "subtree"
    /\ fragment_chunker.token = DocLen(fragment_chunker.line_text)
    /\ fragment_chunker' =
            [fragment_chunker EXCEPT
                !.pc = IF Len(fragment_chunker.chunks) = 0 THEN "fallback" ELSE "done"]
    /\ NotFc

\* one iteration of the sliding-window loop, or its end
FcFallback ==
    /\ fragment_chunker.pc = "fallback"
    /\ LET n == Len(TokenizeFrom(fragment_chunker.line_text, <<>>))
           i == fragment_chunker.i
           line_tokens == TokenizeFrom(fragment_chunker.line_text, <<>>)
           w == FirstWindow(i, n, fragment_chunker.used_indices)
           next == [fragment_chunker EXCEPT !.i = @ + 1]
       IN IF ~(i <= n - min_words)
          THEN fragment_chunker' = [fragment_chunker EXCEPT !.pc = "done"]
          ELSE IF w = 0
          THEN fragment_chunker' = next
          ELSE fragment_chunker' =
                  [next EXCEPT !.used_indices = @ \cup (i..(i + w - 1)),
                               !.chunks = Append(@, RangeChunk(i, i + w - 1, "fallback",
                                                               SubSeq(line_tokens, i + 1,
                                                                      i + w)))]
    /\ NotFc

----------------------------------------------------------------------------
(* PhraseChunker *)

\* the fewest words of a phrase chunk
MinPhraseWords == 3

\* final_phrases: the line cut after each full stop and each comma, every piece
\* stripped, a piece before a comma dropped when it is blank
RECURSIVE FinalPhrasesFrom(_, _)
FinalPhrasesFrom(text, cur) ==
    IF Len(text) = 0 THEN (IF Len(Strip(cur)) = 0 THEN <<>> ELSE <<Strip(cur)>>)
    ELSE IF Head(text) = 21
         THEN <<Strip(Append(cur, 21))>> \o FinalPhrasesFrom(Tail(text), <<>>)
    ELSE IF Head(text) = 20
         THEN (IF Len(Strip(cur)) = 0 THEN <<>> ELSE <<Append(Strip(cur), 20)>>)
                 \o FinalPhrasesFrom(Tail(text), <<>>)
    ELSE FinalPhrasesFrom(Tail(text), Append(cur, Head(text)))

final_phrases(line_text) == FinalPhrasesFrom(line_text, <<>>)

\* the components other than the PhraseChunker
NotPc ==
    UNCHANGED <<um_vars, mgr_vars, lc_vars, val_vars, fragment_chunker, ranker, assembler,
                ext_vars>>

\* one iteration of the loop over final_phrases
PcPhrase ==
    /\ phrase_chunker.pc = "phrases"
    /\ phrase_chunker.phrase_idx < Len(final_phrases(phrase_chunker.line_text))
    /\ LET token_words == TokenizeFrom(phrase_chunker.line_text, <<>>)
           phrase == final_phrases(phrase_chunker.line_text)[phrase_chunker.phrase_idx + 1]
           phrase_words == TokenizeFrom(phrase, <<>>)
           phrase_start == FirstAlignment(token_words, phrase_words)
           phrase_end == phrase_start + Len(phrase_words) - 1
           next == [phrase_chunker EXCEPT !.phrase_idx = @ + 1]
       IN IF Len(phrase_words) < MinPhraseWords
          THEN phrase_chunker' = next
          ELSE IF phrase_start < 0
                  \/ Overlaps(phrase_chunker.used_indices, phrase_start, phrase_end)
          THEN phrase_chunker' = next
          ELSE phrase_chunker' =
                  [next EXCEPT !.used_indices = @ \cup (phrase_start..phrase_end),
                               !.chunks = Append(@, RangeChunk(phrase_start, phrase_end,
                                                               "phrase", phrase_words))]
    /\ NotPc

\* the end of the loop over final_phrases
PcEnd ==
    /\ phrase_chunker.pc = "phrases"
    /\ phrase_chunker.phrase_idx = Len(final_phrases(phrase_chunker.line_text))
    /\ phrase_chunker' = [phrase_chunker EXCEPT !.pc = "done"]
    /\ NotPc

\* a FragmentChunker run on a line chunk, with or without spaCy
FragmentRuns ==
    { [pc |-> IF spacy THEN "subtree" ELSE "fallback", SPACY_AVAILABLE |-> spacy,
       line_text |-> line_text, token |-> 0, i |-> 0, used_indices |-> {},
       chunks |-> <<>>] : line_text \in ChunkerLines, spacy \in BOOLEAN }

\* a PhraseChunker run on a line chunk
PhraseRuns ==
    { [pc |-> "phrases", line_text |-> line_text, phrase_idx |-> 0,
       used_indices |-> {}, chunks |-> <<>>] : line_text \in ChunkerLines }

\* chunk_from_line_chunks of one of the two chunkers reaching a line chunk
InitChunkers ==
    /\ UMInit
    /\ MgrInit
    /\ LcInit
    /\ ValIdle
    /\ RkIdle
    /\ AsmIdle
    /\ ExtIdle
    /\ \/ fragment_chunker \in FragmentRuns /\ PcIdle
       \/ FcIdle /\ phrase_chunker \in PhraseRuns

NextChunkers ==
    \/ FcSubtree
    \/ FcSubtreeEnd
    \/ FcFallback
    \/ PcPhrase
    \/ PcEnd

SpecChunkers == InitChunkers /\ [][NextChunkers]_vars

----------------------------------------------------------------------------
(* Selector.rank_candidates called on its own *)

\* the most candidates a direct rank_candidates call is given
MaxCandidates == 3

\* the lambda_param values, in tenths: diversity only, the configured one,
\* relevance only
Lambdas == {0, MmrLambda10, 10}

\* the lists of at most n candidates
RECURSIVE CandidateLists(_)
CandidateLists(n) ==
    IF n = 0 THEN { <<>> }
    ELSE CandidateLists(n - 1)
            \cup { Append(cs, c) : cs \in {x \in CandidateLists(n - 1) : Len(x) = n - 1},
                                   c \in 1..Len(Pool) }

\* a Selector and the arguments of its rank_candidates calls
InitRank ==
    /\ UMInit
    /\ MgrInit
    /\ LcInit
    /\ ValIdle
    /\ FcIdle
    /\ PcIdle
    /\ AsmIdle
    /\ ExtIdle
    /\ \E candidates \in CandidateLists(MaxCandidates), lambda10 \in Lambdas :
            ranker = [candidates |-> candidates, lambda10 |-> lambda10, runs |-> <<>>]

\* a run of rank_candidates(candidates, lambda_param); the model makes two
CallRankCandidates ==
    /\ Len(ranker.runs) < 2
    /\ ranker' = [ranker EXCEPT
                    !.runs = Append(@, rank_candidates(ranker.candidates, ranker.lambda10))]
    /\ UNCHANGED <<um_vars, mgr_vars, lc_vars, val_vars, fragment_chunker, phrase_chunker,
                   assembler, ext_vars>>

SpecRank == InitRank /\ [][CallRankCandidates]_vars

----------------------------------------------------------------------------
(* Assembler.assemble_line called on its own *)

\* the largest max_retries a direct assemble_line call is given
MaxRetries == 2

\* the prompt_data of the calls: one option per form, two lines, one line, a
\* line and a phrase
AsmPrompts ==
    { [line |-> Numbered("line", <<1>>), phrases |-> Numbered("phrases", <<3>>),
       fragments |-> Numbered("fragments", <<4>>)],
      [line |-> Numbered("line", <<1, 2>>), phrases |-> <<>>, fragments |-> <<>>],
      [line |-> Numbered("line", <<6>>), phrases |-> <<>>, fragments |-> <<>>],
      [line |-> Numbered("line", <<2>>), phrases |-> Numbered("phrases", <<3>>),
       fragments |-> <<>>],
      [line |-> Numbered("line", <<1, 2, 6>>), phrases |-> <<>>, fragments |-> <<>>] }

\* assemble_line(modern_line, prompt_data, max_retries) entered
InitAssemble ==
    /\ UMInit
    /\ MgrInit
    /\ LcInit
    /\ ValIdle
    /\ FcIdle
    /\ PcIdle
    /\ RkIdle
    /\ ExtIdle
    /\ \E prompt_data \in AsmPrompts, has_metadata \in BOOLEAN, n \in 0..MaxRetries :
            assembler = [pc |-> "loop", max_retries |-> n, has_metadata |-> has_metadata,
                         working_prompt_data |-> prompt_data, retries |-> 0,
                         oracle_calls |-> 0, failed_attempts |-> 0, result |-> "pending"]

\* the components other than the Assembler
NotAsm ==
    UNCHANGED <<um_vars, mgr_vars, lc_vars, val_vars, fragment_chunker, phrase_chunker,
                ranker, ext_vars>>

\* what one pass of the while loop does with the reply of the oracle
AsmPass(working, reply) ==
    LET parsed == ExtractOutput(reply.text)
        mv == mini_validate(parsed.text, working, assembler.has_metadata)
        called == [assembler EXCEPT !.working_prompt_data = working,
                                    !.oracle_calls = @ + 1]
        failed == [called EXCEPT !.retries = @ + 1, !.failed_attempts = @ + 1]
    IN assembler' =
          IF reply.kind = "raise" THEN [called EXCEPT !.pc = "raised"]
          ELSE IF ~parsed.parsed THEN failed
          ELSE IF mv.raised THEN [called EXCEPT !.pc = "raised"]
          ELSE IF ~mv.ok THEN failed
          ELSE [called EXCEPT !.pc = "returned", !.result = "dict"]

\* one pass of the while loop of assemble_line
AsmAttempt ==
    /\ assembler.pc = "loop"
    /\ assembler.retries <= assembler.max_retries
    /\ \E working \in (IF assembler.retries > 0
                       THEN Shuffled(assembler.working_prompt_data)
                       ELSE {assembler.working_prompt_data}) :
       \E reply \in OracleReplies(working) : AsmPass(working, reply)
    /\ NotAsm

\* a loop that gives up as soon as one attempt failed
AsmGiveUpEarly ==
    /\ assembler.pc = "loop"
    /\ assembler.retries > 0
    /\ assembler' = [assembler EXCEPT !.pc = "returned", !.result = "None"]
    /\ NotAsm

\* the while loop ends: return None
AsmGiveUp ==
    /\ assembler.pc = "loop"
    /\ assembler.retries > assembler.max_retries
    /\ assembler' = [assembler EXCEPT !.pc = "returned", !.result = "None"]
    /\ NotAsm

NextAssemble ==
    \/ AsmAttempt
    \/ AsmGiveUp

SpecAssemble == InitAssemble /\ [][NextAssemble]_vars

----------------------------------------------------------------------------
(* Sessions that obtain their translator from get_ui_translator *)

\* the clients of two sessions hold the one UITranslator of the process;
\* sessions[t].marked are the <<key, range>> pairs recorded on behalf of t

\* the quotes the two clients have recorded: two one-word ranges of one line
SessKeys == {<<"T", "I", "1", "1">>}
SessRanges == {<<0>>, <<1>>}

NotSessUm == <<mgr_vars, lc_vars, val_vars, fragment_chunker, phrase_chunker, ranker,
               assembler, filter_call, mini_call>>

NotSess == <<um_marks, NotSessUm>>

\* get_ui_translator(s): set_translation_id builds a new TranslationManager,
\* whose new UsedMap loads the ledger of s, unless s is the current id
GetUiTranslator(s) ==
    /\ sessions' = [sessions EXCEPT ![s].started = TRUE]
    /\ IF active_translation_id = s
       THEN UNCHANGED um_vars
       ELSE /\ active_translation_id' = s
            /\ used_maps' = DictPut(EmptyDict, s, LoadedFrom(files[s]))
            /\ um_last' = [op |-> "load", id |-> s, had_file |-> files[s].st = "ok"]
            /\ um_marked' = {}
            /\ um_marked_active' = {}
            /\ UNCHANGED <<files, um_marks>>
    /\ UNCHANGED NotSessUm

\* start_translation_session(s) on the TranslationManager the translator holds
SessionLoad(s) ==
    /\ sessions' = [sessions EXCEPT ![s].started = TRUE]
    /\ Load(s)
    /\ UNCHANGED NotSess

\* the client of session s has a line translated: STEP 6 marks the range of
\* the quote it used in the UsedMap of the translator
SessionMark(s, k, r) ==
    /\ sessions[s].started
    /\ um_marks < MaxMarks
    /\ um_marks' = um_marks + 1
    /\ sessions' = [sessions EXCEPT ![s].marked = @ \cup {<<k, r>>}]
    /\ MarkUsed(k, r)
    /\ UNCHANGED NotSessUm

\* the save that ends the translate_line of session s
SessionSave(s) ==
    /\ sessions[s].started
    /\ Save
    /\ UNCHANGED <<sessions, NotSess>>

\* a save of session s whose json.dump raises after open(path, 'w') truncated
\* the file: save logs the error and returns
SessionSaveFails(s) ==
    /\ sessions[s].started
    /\ active_translation_id # NoId
    /\ SaveOpen
    /\ UNCHANGED <<sessions, NotSess>>

NextSessions ==
    \/ \E s \in IDS : GetUiTranslator(s)
    \/ \E s \in IDS : SessionLoad(s)
    \/ \E s \in IDS, k \in SessKeys, r \in SessRanges : SessionMark(s, k, r)
    \/ \E s \in IDS : SessionSave(s)
    \/ \E s \in IDS : SessionSaveFails(s)

SpecSessions == Init /\ [][NextSessions]_vars

----------------------------------------------------------------------------
(* Selector.filter_candidates called on its own *)

\* number of candidates a direct filter_candidates call is given
MaxFiltered == 2

\* the CandidateQuote objects of the direct calls: chunks of line 1 ("a b c d")
\* and of line 2 of one scene, some with the POS list their chunker attached
Tagged ==
    << \* 1: the line "a b c d"
       [text |-> <<1, 0, 2, 0, 3, 0, 4>>, score |-> 2,
        reference |-> Ref("T", "I", "1", "1", <<0, Comma, 3>>, <<>>)],
       \* 2: its phrase "a b"
       [text |-> <<1, 0, 2>>, score |-> 1,
        reference |-> Ref("T", "I", "1", "1", <<0, Comma, 1>>, <<"PRON", "VERB">>)],
       \* 3: its fragment "b c"
       [text |-> <<2, 0, 3>>, score |-> 3,
        reference |-> Ref("T", "I", "1", "1", <<1, Comma, 2>>, <<>>)],
       \* 4: "thou art a villain" of line 2, its last word tagged as a proper noun
       [text |-> <<5, 0, 6, 0, 7, 0, 8>>, score |-> 2,
        reference |-> Ref("T", "I", "1", "2", <<0, Comma, 3>>,
                          <<"PRON", "VERB", "DET", "PROPN">>)],
       \* 5: the phrase "E f" of line 2, its first word tagged as a proper noun
       [text |-> <<15, 0, 6>>, score |-> 4,
        reference |-> Ref("T", "I", "1", "2", <<0, Comma, 1>>, <<"PROPN", "VERB">>)],
       \* 6: the same phrase without POS tags
       [text |-> <<15, 0, 6>>, score |-> 4,
        reference |-> Ref("T", "I", "1", "2", <<0, Comma, 1>>, <<>>)] >>

\* the lists of at most n of these candidates
RECURSIVE TaggedLists(_)
TaggedLists(n) ==
    IF n = 0 THEN { <<>> }
    ELSE TaggedLists(n - 1)
            \cup { Append(cs, Tagged[c]) : cs \in {x \in TaggedLists(n - 1) : Len(x) = n - 1},
                                           c \in 1..Len(Tagged) }

RECURSIVE FilterList(_, _, _)
\* filter_candidates(candidates) on a list of CandidateQuote objects
FilterList(candidates, active, maps) ==
    IF Len(candidates) = 0 THEN <<>>
    ELSE (IF PassesFilter(Head(candidates), active, maps)
          THEN <<Head(candidates)>> ELSE <<>>)
         \o FilterList(Tail(candidates), active, maps)

\* a Selector whose UsedMap has loaded session t1, and the candidates it is given
InitFilter ==
    /\ active_translation_id = "t1"
    /\ used_maps = DictPut(EmptyDict, "t1", EmptyDict)
    /\ files = [t \in IDS |-> AbsentFile]
    /\ um_last = [op |-> "load", id |-> "t1", had_file |-> FALSE]
    /\ um_marked = {}
    /\ um_marked_active = {}
    /\ um_marks = 0
    /\ MgrInit
    /\ LcInit
    /\ ValIdle
    /\ FcIdle
    /\ PcIdle
    /\ RkIdle
    /\ AsmIdle
    /\ SessIdle
    /\ MiniIdle
    /\ \E candidates \in TaggedLists(MaxFiltered) :
          filter_call = [candidates |-> candidates, filtered |-> <<>>, called |-> FALSE,
                         recorded_before |-> {}]

NotFilter == <<mgr_vars, lc_vars, val_vars, fragment_chunker, phrase_chunker, ranker,
               assembler, sessions, mini_call>>

\* filtered = selector.filter_candidates(candidates)
CallFilterCandidates ==
    /\ ~filter_call.called
    /\ filter_call' = [filter_call EXCEPT
                          !.filtered = FilterList(filter_call.candidates,
                                                  active_translation_id, used_maps),
                          !.called = TRUE,
                          !.recorded_before = um_marked]
    /\ UNCHANGED <<um_vars, NotFilter>>

\* a result that quotes one of the filtered candidates: STEP 6 of translate_line
\* records its range
UseFiltered ==
    \E i \in 1..Len(filter_call.filtered) :
        LET ref == filter_call.filtered[i].reference
            ri == RecorderIndices(ref.word_index)
        IN /\ filter_call.called
           /\ um_marks < MaxMarks
           /\ ri.ok
           /\ um_marks' = um_marks + 1
           /\ MarkUsed(RecorderKey(ref), ri.indices)
           /\ filter_call' = [filter_call EXCEPT !.called = FALSE]
           /\ UNCHANGED NotFilter

NextFilter == CallFilterCandidates \/ UseFiltered

SpecFilter == InitFilter /\ [][NextFilter]_vars

----------------------------------------------------------------------------
(* Assembler._mini_validate called on its own *)

\* the most quotes a prompt of a direct _mini_validate call holds
MaxPromptQuotes == 3

\* the texts of the quotes: "a b", "a", "b c", "c" and "A, b c."
MiniTexts ==
    { <<1, 0, 2>>, <<1>>, <<2, 0, 3>>, <<3>>, <<11, 20, 0, 2, 0, 3, 21>> }

\* the lists of at most n different elements of a set
DistinctLists(set, n) ==
    {l \in UNION {[1..k -> set] : k \in 0..n} :
        \A i, j \in 1..Len(l) : i # j => l[i] # l[j]}

\* all_quotes of _mini_validate for a prompt whose entries have these texts
MiniQuotes(texts) ==
    [i \in 1..Len(texts) |->
        [temp_id |-> <<"line", i>>, normalized |-> normalize_text(texts[i])]]

\* _mini_validate(assembled_line, quote_data) on a prompt with these texts;
\* raised: the KeyError of quote["temp_id"] on the entry of the "metadata" form
MiniValidateTexts(assembled_line, texts, has_metadata) ==
    IF has_metadata THEN [raised |-> TRUE, ok |-> FALSE, temp_ids |-> <<>>]
    ELSE LET r == MatchLoop(1, normalize_text(assembled_line),
                            SortByLengthDesc(MiniQuotes(texts), <<>>), <<>>)
         IN [raised |-> FALSE, ok |-> r.ok, temp_ids |-> r.temp_ids]

\* a prompt, and an assembled line made of 1 to 3 different entries of it,
\* as it is or followed by a word of no entry
InitMini ==
    /\ UMInit
    /\ MgrInit
    /\ LcInit
    /\ ValIdle
    /\ FcIdle
    /\ PcIdle
    /\ RkIdle
    /\ AsmIdle
    /\ SessIdle
    /\ FilterIdle
    /\ \E texts \in DistinctLists(MiniTexts, MaxPromptQuotes) \ { <<>> } :
       \E used \in DistinctLists(1..Len(texts), MaxQuotes) \ { <<>> } :
       \E garbled \in BOOLEAN, has_metadata \in BOOLEAN :
            mini_call = [texts |-> texts, used |-> used, garbled |-> garbled,
                         has_metadata |-> has_metadata,
                         assembled_line |->
                            JoinSpace([i \in 1..Len(used) |-> texts[used[i]]])
                                \o (IF garbled THEN <<Space, 9>> ELSE <<>>),
                         result |-> "pending", temp_ids |-> <<>>]

\* validation_result = self._mini_validate(assembled_line, working_prompt_data)
CallMiniValidate ==
    /\ mini_call.result = "pending"
    /\ LET mv == MiniValidateTexts(mini_call.assembled_line, mini_call.texts,
                                   mini_call.has_metadata)
       IN mini_call' = [mini_call EXCEPT
                           !.result = IF mv.raised THEN "raised"
                                      ELSE IF mv.ok THEN "dict" ELSE "False",
                           !.temp_ids = mv.temp_ids]
    /\ UNCHANGED <<um_vars, mgr_vars, lc_vars, val_vars, fragment_chunker, phrase_chunker,
                   ranker, assembler, sessions, filter_call>>

SpecMini == InitMini /\ [][CallMiniValidate]_vars

----------------------------------------------------------------------------
(* Claims *)

\* was_used on a new UsedMap that has loaded session tid from its ledger file
WasUsedAfterLoad(tid, reference_key, context_range) ==
    WasUsedIn(tid, DictPut(EmptyDict, tid, LoadedFrom(files[tid])),
              reference_key, context_range)

\* after a load that found no ledger file, was_used is false for every key and range
FreshLoadReportsNothing ==
    (um_last.op = "load" /\ ~um_last.had_file)
        => \A k \in UMKeys, r \in UMRanges : ~WasUsed(k, r)

\* C6 as stated: every range marked since session s became the active session
\* and was last reset is reported by was_used (a load of s that is repeated
\* while s is active does not end the period), and after the load of an id
\* with no persisted ledger was_used is false.
C6_AsStated ==
    /\ \A p \in um_marked_active : WasUsed(p[1], p[2])
    /\ FreshLoadReportsNothing

\* C6 amended: every range marked since the last load or reset of the active
\* session is reported by was_used; after the load of an id with no persisted
\* ledger was_used is false.
C6_MarkedIsUsed ==
    /\ \A p \in um_marked : WasUsed(p[1], p[2])
    /\ FreshLoadReportsNothing

\* C6 witness: two ranges are marked under one key in the active session, and
\* a save and nothing else has happened since
C6_Witness ==
    /\ um_last.op = "save"
    /\ \E p \in um_marked, q \in um_marked : p # q /\ p[1] = q[1]

\* C1: within one session no (reference_key, word-index range) pair occurs
\* twice among the references of the returned results, inside one result or
\* across results, from assembly or from the failsafe.
C1_NoRangeReturnedTwice == ~reused

\* C2: in standard mode, when at least 3 candidates survive filtering and the
\* oracle replies with the concatenation of 1 to 3 prompted candidates that
\* validate_line accepts, translate_line returns a result with that text and
\* those references, not flagged is_failsafe, and records those references.
C2_GoodReplyIsReturned ==
    (pc = "returned" /\ good_reply.seen)
        => /\ ret.kind = "result"
           /\ ~ret.is_failsafe
           /\ ret.text = JoinSpace(TextsOf(good_reply.cands))
           /\ ret.refs = good_reply.cands
           /\ \A i \in 1..Len(good_reply.cands) : good_reply.cands[i] \in recorded

\* C3: once a session is started, translate_line never raises to its caller,
\* whatever the candidate store, the oracle and the validator do: it returns
\* a result or None.
C3_NeverRaises ==
    (pc = "returned" /\ call_info.started) => ret.kind \in {"result", "none"}

\* C3 witness: a call in a started session has returned None, every search for
\* a line to fall back on having failed, and has recorded nothing
C3_Witness ==
    /\ pc = "returned"
    /\ call_info.started
    /\ ret.kind = "none"
    /\ um_last.op = "load"

\* C4: if the selector_results passed to translate_line contain a line-level
\* candidate, translate_line returns a result, not None, whatever the oracle
\* and the later searches do.
C4_LineCandidateGivesResult ==
    (pc = "returned" /\ call_info.started /\ call_info.has_line) => ret.kind = "result"

\* C5: translate_scene and translate_group never raise: a line whose retrieval
\* or translation fails is skipped and the later lines are still processed.
C5_BatchNeverRaises == batch_status # "raised"

\* C7: every reference that translate_line or the failsafe recorded in the
\* UsedMap is removed by filter_candidates when it is offered again in the
\* same session.
C7_RecordedIsFiltered ==
    \A q \in recorded : ~PassesFilter(Pool[q], active_translation_id, used_maps)

\* C8 as stated: no mark_used is issued for a line that validate_line has not
\* accepted.
C8_AsStated == (line_marks # {}) => validated

\* C8 amended: the mark_used calls of STEP 6 are issued only after
\* validate_line has returned true for the line; the failsafe records its
\* single quote without validation.
C8_Step6MarksValidated ==
    \A m \in line_marks : m.by = "step6" => validated

\* C8 witness: STEP 6 has recorded the references of a validated line and the
\* ledger is about to be saved
C8_Witness ==
    /\ pc = "save_open"
    /\ validated
    /\ \E m \in line_marks : m.by = "step6"

\* C9: after a crash, a load of the session recovers every range recorded by
\* the lines that had completed before the crash.
C9_CommittedSurvivesCrash ==
    (crashes > 0 /\ um_last.op = "load" /\ um_last.id = SessionId)
        => \A c \in committed : WasUsed(c[1], c[2])

RECURSIVE ConcatNormalized(_, _)
\* the normalized texts of the prompt entries named by temp_ids, concatenated
ConcatNormalized(prompt, temp_ids) ==
    IF Len(temp_ids) = 0 THEN <<>>
    ELSE normalize_text(Pool[CandOf(prompt, Head(temp_ids))].text)
            \o ConcatNormalized(prompt, Tail(temp_ids))

\* C11: whenever assemble_line returns a result, its temp_ids are 1 to 3
\* pairwise distinct prompt entries and the normalized text of the result is
\* the concatenation, in that order, of the entries' normalized texts.
C11_AssembledFromQuotes ==
    (pc = "validate")
        => LET ids == frame.assembled_result.temp_ids
           IN /\ Len(ids) \in 1..MaxQuotes
              /\ \A i, j \in 1..Len(ids) : i # j => ids[i] # ids[j]
              /\ normalize_text(frame.assembled_result.text)
                    = ConcatNormalized(frame.working_prompt_data, ids)

\* C12: the failsafe result built from any line chunk of chunk_text passes
\* validate_line against the corpus made of the chunks chunk_text produced.
C12_FailsafeValidates ==
    \A i \in 1..Len(chunks) :
        LET result == SingleQuoteResult(QuoteOf(chunks[i]))
        IN ValidateLineIn(chunks, result.text, result.references)

RECURSIVE DeclaredWords(_)
\* the ground-truth words the references declare, in the order of the references
DeclaredWords(refs) ==
    IF Len(refs) = 0 THEN <<>>
    ELSE LET f == ExtractFragment(ground_truth, Head(refs))
         IN (IF f.found THEN Words(Lower(f.text)) ELSE <<>>) \o DeclaredWords(Tail(refs))

\* C13: validate_line returns true only if the text, compared word by word after
\* case and whitespace normalization, equals the concatenation, in the order of
\* the references, of the ground-truth words at the range of every reference.
C13_TrueOnlyWordForWord ==
    (val_result = "True") => Words(Lower(val_text)) = DeclaredWords(val_refs)

\* the reference resolves to no ground-truth line
NoLine(ref) ==
    \/ ref.title \in {Missing, Null, ""}
    \/ ref.line \in {Missing, ""}
    \/ FindEntry(ground_truth, ref) = 0

\* the word-index range of the reference yields zero words of its line
ZeroWords(ref) ==
    /\ ~NoLine(ref)
    /\ HasChar(ref.word_index, Comma)
    /\ LET parts == SplitOn(ref.word_index, Comma, <<>>)
       IN /\ Len(parts) = 2 /\ IsInt(parts[1]) /\ IsInt(parts[2])
          /\ WordsInRange(
                _tokenize_line_for_validation(
                    ground_truth[FindEntry(ground_truth, ref)].text),
                IntOf(parts[1]), IntOf(parts[2])) = <<>>

Droppable(ref) == NoLine(ref) \/ ZeroWords(ref)

\* the references without those validate_line is to drop
Kept(refs) == SelectSeq(refs, LAMBDA r : ~Droppable(r))

\* C14: a reference that resolves to no ground-truth line, or whose range yields
\* zero words, is dropped without aborting the check of the other references
\* (the answer is the one for the list without it), and validate_line returns
\* false whenever no reference resolves.
C14_UnresolvedDropped ==
    (val_result # "pending")
        => /\ (val_result = "True")
                <=> ValidateLineIn(ground_truth, val_text, Kept(val_refs))
           /\ (\A i \in 1..Len(val_refs) :
                    ~ExtractFragment(ground_truth, val_refs[i]).found)
                => val_result = "False"

\* a call that passed with a dropped reference before a resolved one
C14_Witness ==
    /\ val_result = "True"
    /\ \E i, j \in 1..Len(val_refs) :
            /\ i < j
            /\ Droppable(val_refs[i])
            /\ ExtractFragment(ground_truth, val_refs[j]).found

\* C16: with min=3 and max=6 every fragment chunk has between 3 and 6 words,
\* and a line with at least 3 word tokens yields at least one fragment chunk.
C16_FragmentSizes ==
    /\ \A k \in 1..Len(fragment_chunker.chunks) :
            LET c == fragment_chunker.chunks[k]
            IN c.end - c.start + 1 \in min_words..max_words
    /\ (fragment_chunker.pc = "done"
            /\ Len(TokenizeFrom(fragment_chunker.line_text, <<>>)) >= min_words)
        => Len(fragment_chunker.chunks) >= 1

\* a six-word line chunked to the end
C16_Witness ==
    /\ fragment_chunker.pc = "done"
    /\ Len(TokenizeFrom(fragment_chunker.line_text, <<>>)) = 6
    /\ Len(fragment_chunker.chunks) >= 1

\* the ranges of the chunks are pairwise disjoint
PairwiseDisjoint(cs) ==
    \A a, b \in 1..Len(cs) :
        a # b => (cs[a].start..cs[a].end) \cap (cs[b].start..cs[b].end) = {}

\* C15: for each of the phrase and fragment granularities, subtree strategy and
\* sliding-window fallback alike, the word-index ranges of the chunks produced
\* for a line are pairwise disjoint.
C15_RangesDisjoint ==
    /\ PairwiseDisjoint(fragment_chunker.chunks)
    /\ PairwiseDisjoint(phrase_chunker.chunks)

\* a line that the sliding window cut into two or more fragments
C15_Witness ==
    /\ fragment_chunker.pc = "done"
    /\ Len(fragment_chunker.chunks) >= 2
    /\ fragment_chunker.chunks[1].strategy = "fallback"

\* C17: in the output of chunk_text no two line chunks share the same
\* (title, act, scene, line) tuple, whatever the sequence of title, ACT, SCENE,
\* structural and text lines it reads.
C17_UniqueLineTuples ==
    \A a, b \in 1..Len(chunks) :
        a # b => <<chunks[a].title, chunks[a].act, chunks[a].scene, chunks[a].line>>
                    # <<chunks[b].title, chunks[b].act, chunks[b].scene, chunks[b].line>>

\* the candidates of the score-sorted pool left after the first k of ranked were
\* taken, in pool order (the pool is a list of positions of the input)
RECURSIVE RemainingAfter(_, _)
RemainingAfter(pool, taken) ==
    IF Len(taken) = 0 THEN pool
    ELSE LET at == CHOOSE i \in 1..Len(pool) :
                        pool[i] = Head(taken) /\ \A j \in 1..(i - 1) : pool[j] # Head(taken)
         IN RemainingAfter(RemoveAt(pool, at), Tail(taken))

\* pick k of the ranking has the highest MMR score of what remained, and every
\* candidate before the one taken in the score-sorted pool scores strictly less
TieWonByFirst(candidates, lambda10, ranked, k) ==
    LET before == SubSeq(ranked, 1, k - 1)
        remaining == RemainingAfter(SortByScore(candidates, <<>>), before)
        at == CHOOSE i \in 1..Len(remaining) :
                    remaining[i] = ranked[k] /\ \A j \in 1..(i - 1) : remaining[j] # ranked[k]
    IN /\ \A i \in 1..Len(remaining) :
            ~FracGT(MmrScore(remaining[i], before, lambda10),
                    MmrScore(ranked[k], before, lambda10))
       /\ \A i \in 1..(at - 1) :
            FracGT(MmrScore(ranked[k], before, lambda10),
                   MmrScore(remaining[i], before, lambda10))

\* some candidate left in the pool ties with pick k of the ranking
TieAt(candidates, lambda10, ranked, k) ==
    LET before == SubSeq(ranked, 1, k - 1)
        remaining == RemainingAfter(SortByScore(candidates, <<>>), SubSeq(ranked, 1, k))
    IN \E i \in 1..Len(remaining) :
            /\ remaining[i] # ranked[k]
            /\ ~FracGT(MmrScore(ranked[k], before, lambda10),
                       MmrScore(remaining[i], before, lambda10))

\* C18: rank_candidates is deterministic: two runs on the same candidate list
\* and the same lambda return the same order, and a tie in MMR score is won by
\* the candidate that comes first in the score-sorted pool.
C18_DeterministicTies ==
    /\ Len(ranker.runs) = 2 => ranker.runs[1] = ranker.runs[2]
    /\ \A r \in 1..Len(ranker.runs) :
            /\ Len(ranker.runs[r]) = Len(ranker.candidates)
            /\ \A k \in 2..Len(ranker.runs[r]) :
                    TieWonByFirst(ranker.candidates, ranker.lambda10, ranker.runs[r], k)

\* two runs made on a list where a pick had a tie
C18_Witness ==
    /\ Len(ranker.runs) = 2
    /\ \E k \in 2..Len(ranker.runs[1]) :
            TieAt(ranker.candidates, ranker.lambda10, ranker.runs[1], k)

\* how many times c occurs in the list
Occurrences(list, c) == Cardinality({i \in 1..Len(list) : list[i] = c})

\* C19: rank_candidates returns each input candidate exactly once, and the first
\* returned candidate has the minimum distance score of the input.
C19_PermutationMinFirst ==
    \A r \in 1..Len(ranker.runs) :
        LET ranked == ranker.runs[r]
        IN /\ Len(ranked) = Len(ranker.candidates)
           /\ \A c \in 1..Len(Pool) :
                Occurrences(ranked, c) = Occurrences(ranker.candidates, c)
           /\ Len(ranked) > 0
                => \A i \in 1..Len(ranker.candidates) :
                        Pool[ranked[1]].score <= Pool[ranker.candidates[i]].score

\* a run on three different candidates whose best one was not given first
C19_Witness ==
    /\ Len(ranker.runs) >= 1
    /\ Len(ranker.candidates) = 3
    /\ Cardinality({ranker.candidates[i] : i \in 1..3}) = 3
    /\ ranker.runs[1][1] # ranker.candidates[1]
    /\ ranker.runs[1] # SortByScore(ranker.candidates, <<>>)

\* C20: assemble_line makes at most max_retries + 1 oracle calls, and it returns
\* None only if each of max_retries + 1 attempts produced no parseable text or
\* failed mini-validation.
C20_BoundedRetries ==
    /\ assembler.oracle_calls <= assembler.max_retries + 1
    /\ (assembler.pc = "returned" /\ assembler.result = "None")
        => /\ assembler.oracle_calls = assembler.max_retries + 1
           /\ assembler.failed_attempts = assembler.max_retries + 1

\* a call with max_retries = 1 that returned None
C20_Witness ==
    /\ assembler.pc = "returned"
    /\ assembler.result = "None"
    /\ assembler.max_retries = 1
    /\ assembler.oracle_calls = 2

\* the range strings recorded on behalf of session t under a key
MarkedFor(t, reference_key) ==
    {ContextStr(pair[2]) : pair \in {p \in sessions[t].marked : p[1] = reference_key}}

\* C21: two sessions with distinct translation ids never affect each other: a
\* range is in the ledger of a session, is reported as used while that session
\* is active, or is written to its ledger file, only if it was marked on
\* behalf of that session
C21_SessionsIsolated ==
    \A t \in IDS :
        /\ \A k \in DOMAIN MapOf(used_maps, t) : MapOf(used_maps, t)[k] \subseteq MarkedFor(t, k)
        /\ \A k \in DOMAIN files[t].data : files[t].data[k] \subseteq MarkedFor(t, k)
        /\ active_translation_id = t =>
              \A k \in SessKeys, r \in SessRanges :
                  WasUsed(k, r) => ContextStr(r) \in MarkedFor(t, k)

\* C22: load never raises (it can be called in every state, and it leaves a
\* ledger for the id it was given), and that ledger is empty whenever the
\* ledger file does not exist or holds malformed content
C22_LoadNeverRaises ==
    /\ \A tid \in IDS : ENABLED SessionLoad(tid)
    /\ um_last.op = "load" =>
          /\ active_translation_id = um_last.id
          /\ um_last.id \in DOMAIN used_maps
          /\ files[um_last.id].st \in {"absent", "malformed"} =>
                used_maps[um_last.id] = EmptyDict

\* a load of a truncated ledger file by a UsedMap that held marks of that session
C22_Witness ==
    /\ um_last.op = "load"
    /\ files[um_last.id].st = "malformed"
    /\ um_marked_active # {}
    /\ used_maps[um_last.id] = EmptyDict

\* the candidate's POS list has a PROPN tag, at the first or at a later token
TaggedProperNoun(cand) ==
    \E i \in 1..Len(cand.reference.POS) : cand.reference.POS[i] = "PROPN"

RECURSIVE IsSubsequence(_, _)
\* a can be obtained from b by deleting elements
IsSubsequence(a, b) ==
    IF Len(a) = 0 THEN TRUE
    ELSE IF Len(b) = 0 THEN FALSE
    ELSE IF Head(a) = Head(b) THEN IsSubsequence(Tail(a), Tail(b))
    ELSE IsSubsequence(a, Tail(b))

\* C23: filter_candidates removes every candidate whose POS sequence has a
\* PROPN tag, at the first token or at any later token, and its output is a
\* subsequence of its input
C23_ProperNounsRemoved ==
    /\ \A i \in 1..Len(filter_call.filtered) : ~TaggedProperNoun(filter_call.filtered[i])
    /\ IsSubsequence(filter_call.filtered, filter_call.candidates)

\* a call that removed a candidate tagged PROPN at a later token and kept another
C23_Witness ==
    /\ filter_call.called
    /\ \E i \in 1..Len(filter_call.candidates) :
          LET pos == filter_call.candidates[i].reference.POS
          IN Len(pos) > 1 /\ pos[1] # "PROPN" /\ pos[Len(pos)] = "PROPN"
    /\ Len(filter_call.filtered) = 1

\* the word positions a candidate's word_index names
IndexSet(cand) == SeqToSet(FilterIndices(cand.reference.word_index).indices)

\* C30: once a range of a line is recorded in the UsedMap, every later candidate
\* on the same line whose range overlaps it is excluded by filter_candidates: no
\* candidate a call keeps shares a word position with a range recorded before it
C30_NoOverlapKept ==
    \A i \in 1..Len(filter_call.filtered) :
        \A pair \in filter_call.recorded_before :
            pair[1] = FilterKey(filter_call.filtered[i].reference)
                => IndexSet(filter_call.filtered[i]) \cap SeqToSet(pair[2]) = {}

\* the search mode a position of translate_line belongs to: 1 STANDARD, 2 HYBRID,
\* 3 FAILSAFE, 0 outside the three (no request, or the result is being saved)
SearchMode(p, f) ==
    IF p \in {"hybrid_fallback", "failsafe", "failsafe_search", "emergency"} THEN 3
    ELSE IF p \in {"hybrid_initial", "prepare", "extended", "assemble", "validate", "mark"}
         THEN (IF f.use_hybrid_search THEN 2 ELSE 1)
    ELSE 0

\* a step of a request never moves to an earlier mode, a hybrid search is
\* started only from STANDARD or by the caller, and nothing follows the
\* saving of a result but its return
ModeForward ==
    /\ (SearchMode(pc, frame) > 0 /\ SearchMode(pc', frame') > 0)
          => SearchMode(pc', frame') >= SearchMode(pc, frame)
    /\ (SearchMode(pc, frame) >= 2 /\ pc # "hybrid_initial") => pc' # "hybrid_initial"
    /\ pc \in {"save_open", "save_dump"} => SearchMode(pc', frame') = 0

\* C24: within one translate_line request the search mode only moves forward
\* STANDARD -> HYBRID -> FAILSAFE (standard escalates to hybrid at most once,
\* hybrid never re-enters standard or hybrid, a failsafe result ends the
\* request), and the request makes at most 3 oracle calls
C24_ModesForward == [][ModeForward]_vars /\ [](oracle_calls <= 3)

\* a request that called the oracle twice in standard mode, once in hybrid
\* mode, and is now in its failsafe
C24_Witness ==
    /\ pc = "failsafe"
    /\ frame.use_hybrid_search
    /\ ~call_info.hybrid
    /\ oracle_calls = 3

\* STEP 5 is about to reject the assembled line of a standard-mode request
RejectedInStandard ==
    /\ pc = "validate"
    /\ ~frame.use_hybrid_search
    /\ Len(Strip(frame.assembled_result.text)) > 0
    /\ Len(frame.assembled_result.temp_ids) > 0
    /\ ~validate_line(Strip(frame.assembled_result.text),
                      RefsOf([i \in 1..Len(frame.assembled_result.temp_ids) |->
                                CandOf(frame.prompt_structure,
                                       frame.assembled_result.temp_ids[i])]))

\* C25: when validate_line rejects an assembled line in standard mode,
\* translate_line retries (a further assembly attempt or the hybrid escalation)
\* before it falls back to the failsafe
C25_RejectionRetried ==
    [][RejectedInStandard => pc' \in {"assemble", "hybrid_initial"}]_vars

\* a pass of the while loop of assemble_line that is a retry
RetryPass ==
    /\ assembler.pc = "loop"
    /\ assembler.retries > 0
    /\ assembler'.oracle_calls = assembler.oracle_calls + 1

\* b holds the elements of a, each as often as a does
IsPermutation(a, b) ==
    /\ Len(a) = Len(b)
    /\ \A i \in 1..Len(a) : Occurrences(a, a[i]) = Occurrences(b, a[i])

\* the retry prompted with the list of the level less exactly one candidate
OneRemoved(level) ==
    LET old == assembler.working_prompt_data[level]
        new == assembler'.working_prompt_data[level]
    IN /\ Len(new) = Len(old) - 1
       /\ \E i \in 1..Len(old) :
             IsPermutation(new, SubSeq(old, 1, i - 1) \o SubSeq(old, i + 1, Len(old)))

\* the retry prompted with the list of the level less its last candidate when
\* it had more than one, and with the same candidates otherwise
LastRemovedIfSeveral(level) ==
    LET old == assembler.working_prompt_data[level]
        new == assembler'.working_prompt_data[level]
    IN IF Len(old) > 1
       THEN IsPermutation(new, SubSeq(old, 1, Len(old) - 1))
       ELSE new = old

\* C26 as stated: on every retry, assemble_line removes exactly one candidate
\* from the list of each granularity and reshuffles the remaining ones before
\* it prompts the oracle again
C26_OneRemovedPerLevel ==
    [][RetryPass => \A level \in {"line", "phrases", "fragments"} : OneRemoved(level)]_vars

\* C26 amended: on every retry, each list with more than one candidate loses
\* its last candidate and the rest is reordered; a list with one candidate or
\* none is prompted again as it is
C26_LastRemovedIfSeveral ==
    [][RetryPass =>
          \A level \in {"line", "phrases", "fragments"} : LastRemovedIfSeveral(level)]_vars

\* a retry that dropped the third of three line candidates and put the second first
C26_Witness ==
    /\ assembler.oracle_calls = 2
    /\ assembler.working_prompt_data.line
          = <<Numbered("line", <<1, 2, 6>>)[2], Numbered("line", <<1, 2, 6>>)[1]>>

\* the candidates that survive the filtering of STEP 1
Survivors == Len(Entries(prepare_prompt_structure(frame.selector_results)))

\* C27: translate_line runs the extended search exactly when fewer than 3
\* candidates in total survive filtering, and abandons assembly for the
\* failsafe at this step only if the extended search leaves no candidate
C27_ExtendedBelowThree ==
    [][/\ pc = "prepare" => (pc' = "extended" <=> Survivors < 3)
       /\ (pc = "extended" /\ pc' = "assemble")
             => Len(Entries(frame'.prompt_structure)) >= 1]_vars

\* the chunk's text is the words start..end of the line joined by single
\* spaces, and its word_count is the length of that range
TextIsRange(line_text, chunk) ==
    LET token_words == TokenizeFrom(line_text, <<>>)
    IN /\ 0 <= chunk.start
       /\ chunk.end < Len(token_words)
       /\ chunk.text = JoinSpace(SubSeq(token_words, chunk.start + 1, chunk.end + 1))
       /\ chunk.end - chunk.start + 1 = chunk.word_count

\* C28: for every phrase and fragment chunk, text equals the parent line's word
\* tokens at start..end joined by single spaces, and end - start + 1 equals
\* word_count
C28_TextMatchesRange ==
    /\ \A i \in 1..Len(fragment_chunker.chunks) :
          TextIsRange(fragment_chunker.line_text, fragment_chunker.chunks[i])
    /\ \A i \in 1..Len(phrase_chunker.chunks) :
          TextIsRange(phrase_chunker.line_text, phrase_chunker.chunks[i])

\* a fragment made from a subtree that starts after the first word of its line
C28_Witness ==
    \E i \in 1..Len(fragment_chunker.chunks) :
        /\ fragment_chunker.chunks[i].strategy = "subtree"
        /\ fragment_chunker.chunks[i].start > 0
        /\ fragment_chunker.chunks[i].word_count >= min_words

\* C29: _mini_validate accepts every text whose normalization is the
\* concatenation of the normalized texts of 1 to 3 distinct prompt entries
C29_AcceptsConcatenations ==
    (mini_call.result # "pending" /\ ~mini_call.garbled) => mini_call.result = "dict"

====
